---- MODULE Spec2Model ----
(***************************************************************************)
(* A model of ad's structural-regex edit engine: address evaluation        *)
(* (src/src/exec/addr.rs) and program execution (src/src/exec/mod.rs),     *)
(* and of the key handling of its modes (src/src/mode/mod.rs).             *)
(* Character indices are 0-based as in the source; text[i] of the source   *)
(* is txt[i + 1] here.                                                     *)
(***************************************************************************)
EXTENDS Integers, Sequences, FiniteSets, TLC

(***************************************************************************)
(* Bounds of the model.                                                    *)
(***************************************************************************)
\* longest text drawn for a buffer
MaxLen == 3

\* usize is modelled as a machine word of UsizeBits bits: arithmetic that can
\* leave the word either panics (overflow checks on) or wraps (checks off).
UsizeBits == 16
UsizeMod == 2 ^ UsizeBits
UsizeMax == UsizeMod - 1

NL == "\n"

\* Option<usize>::None, and the unwinding of a panic, as out-of-band values
Absent == -1
Panic == -2

Min(a, b) == IF a <= b THEN a ELSE b
Max(a, b) == IF a >= b THEN a ELSE b

\* usize::saturating_sub / saturating_add
SatSub(a, b) == IF a >= b THEN a - b ELSE 0
SatAdd(a, b) == Min(a + b, UsizeMax)

\* `a - b` on usize: panics when overflow checks are on (oc), wraps otherwise
USub(a, b, oc) == IF a >= b THEN a - b ELSE IF oc THEN Panic ELSE a - b + UsizeMod

\* `a + b` on usize
UAdd(a, b, oc) == IF a + b <= UsizeMax THEN a + b ELSE IF oc THEN Panic ELSE (a + b) % UsizeMod

\* `(idx as isize + offset) as usize`
AsIsize(u) == IF u >= UsizeMod \div 2 THEN u - UsizeMod ELSE u
OffsetUsize(idx, offset) == (AsIsize(idx) + offset) % UsizeMod

(***************************************************************************)
(* Dot: a selection [from, to] (both ends inclusive); sa is start_active.  *)
(***************************************************************************)
CurDot(i) == [from |-> i, to |-> i, sa |-> FALSE]

DefaultDot == CurDot(0)

FromCursors(c1, c2, c1_was_active) ==
    IF c1 <= c2
    THEN [from |-> c1, to |-> c2, sa |-> c1_was_active]
    ELSE [from |-> c2, to |-> c1, sa |-> ~c1_was_active]

FromCharIndices(from, to) == FromCursors(from, to, FALSE)

FirstCur(d) == d.from
LastCur(d) == d.to
ActiveCur(d) == IF d.sa THEN d.from ELSE d.to

ClampIdx(d, max_idx) ==
    [from |-> Min(d.from, max_idx), to |-> Min(d.to, max_idx), sa |-> d.sa]

(***************************************************************************)
(* The text of a buffer and its line index.                                *)
(***************************************************************************)
RECURSIVE CountNL(_, _)
\* number of newlines among the first n characters of t
CountNL(t, n) ==
    IF n = 0 THEN 0
    ELSE CountNL(t, n - 1) + (IF t[n] = NL THEN 1 ELSE 0)

LenLines(t) ==
    IF Len(t) > 0 /\ t[Len(t)] = NL
    THEN CountNL(t, Len(t))
    ELSE CountNL(t, Len(t)) + 1

TryLineToChar(t, line_idx) ==
    IF line_idx >= LenLines(t) THEN Absent
    ELSE IF line_idx = 0 THEN 0
    ELSE CHOOSE i \in 1..Len(t) : t[i] = NL /\ CountNL(t, i) = line_idx

TryCharToLine(t, char_idx) ==
    IF char_idx < Len(t) THEN CountNL(t, char_idx)
    ELSE IF char_idx = Len(t) THEN LenLines(t) - 1
    ELSE Absent

\* impl Address for Buffer
LenChars(t) == Len(t)

MaxIter(t) == LenChars(t)

LineToChar(t, line_idx) == TryLineToChar(t, line_idx)

CharToLine(t, char_idx) == TryCharToLine(t, char_idx)

CharToLineEnd(t, char_idx, oc) ==
    LET line_idx == TryCharToLine(t, char_idx) IN
    IF line_idx = Absent THEN Absent
    ELSE LET nxt == TryLineToChar(t, line_idx + 1) IN
         IF nxt = Absent THEN USub(LenChars(t), 1, oc) ELSE nxt

CharToLineStart(t, char_idx) ==
    LET line_idx == TryCharToLine(t, char_idx) IN
    IF line_idx = Absent THEN Absent ELSE TryLineToChar(t, line_idx)

(***************************************************************************)
(* Regular expressions.  A regex is [kind, c, d]:                          *)
(*   lit  : the character c            plus : c+                           *)
(*   star : c*  (matches the empty string)                                 *)
(*   alt  : (c)|d  (submatch 1 is present only when c matched)             *)
(*   edge : the empty string where a run of c begins or ends: \b in a text *)
(*          whose only word character is c                                 *)
(* A Match is [found, from, to, s1]: the location [from, to) and whether   *)
(* submatch 1 (which then spans the whole match) is present.               *)
(***************************************************************************)
Re(kind, c, d) == [kind |-> kind, c |-> c, d |-> d]

NoRe == Re("none", "", "")

NoMatch == [found |-> FALSE, from |-> 0, to |-> 0, s1 |-> FALSE]

MkMatch(from, to, s1) == [found |-> TRUE, from |-> from, to |-> to, s1 |-> s1]

\* Match::synthetic
Synthetic(from, to) == MkMatch(from, to, FALSE)

\* Match::apply_offset that leaves the match where it was
ApplyOffsetNone(m, offset) == m

\* Match::apply_offset
ApplyOffset(m, offset) == [m EXCEPT !.from = m.from + offset, !.to = m.to + offset]

\* Match::sub_loc: submatch 0 is the match itself
SubLoc(m, n) ==
    IF n = 0 \/ (n = 1 /\ m.s1) THEN <<m.from, m.to>> ELSE <<Absent, Absent>>

RECURSIVE RunEnd(_, _, _, _)
\* end (exclusive) of the run of c that starts at index p, inside [p, hi)
RunEnd(t, p, hi, c) ==
    IF p < hi /\ t[p + 1] = c THEN RunEnd(t, p + 1, hi, c) ELSE p

RECURSIVE RunStart(_, _, _)
\* start of the run of c that ends (exclusive) at index p
RunStart(t, p, c) ==
    IF p > 0 /\ t[p] = c THEN RunStart(t, p - 1, c) ELSE p

FirstIdx(S) == CHOOSE p \in S : \A q \in S : p <= q
LastIdx(S) == CHOOSE p \in S : \A q \in S : p >= q

\* index p of t is where a run of c begins or ends
IsEdge(t, p, c) ==
    (p > 0 /\ t[p] = c) # (p < Len(t) /\ t[p + 1] = c)

\* the indices in [lo, hi) where a match of re can start; an edge can also
\* be matched at hi, where no character is left
Hits(re, t, lo, hi) ==
    {p \in lo..(hi - 1) :
        \/ re.kind \in {"lit", "plus", "alt"} /\ t[p + 1] = re.c
        \/ re.kind = "alt" /\ t[p + 1] = re.d}
    \cup {p \in lo..hi : re.kind = "edge" /\ IsEdge(t, p, re.c)}

\* the match of re that starts at index p (one of Hits), inside [p, hi)
MatchAt(re, t, p, hi) ==
    CASE re.kind = "plus" -> MkMatch(p, RunEnd(t, p, hi, re.c), FALSE)
      [] re.kind = "alt" -> MkMatch(p, p + 1, t[p + 1] = re.c)
      [] re.kind = "edge" -> MkMatch(p, p, FALSE)
      [] OTHER -> MkMatch(p, p + 1, FALSE)

\* the leftmost match of re among the starts `hits`
FirstMatch(re, t, hits, from, hi) ==
    IF re.kind = "star" THEN MkMatch(from, Max(from, RunEnd(t, from, hi, re.c)), FALSE)
    ELSE IF hits = {} THEN NoMatch
    ELSE MatchAt(re, t, FirstIdx(hits), hi)

\* Regex::match_iter over iter_between(from, to): the leftmost match inside
\* [from, min(to, len))
MatchIter(re, t, from, to) ==
    FirstMatch(re, t, Hits(re, t, from, Min(to, Len(t))), from, Min(to, Len(t)))

\* a search that is not bounded by from and to
MatchesAnywhere(re, t, from, to) == MatchIter(re, t, 0, Len(t)).found

\* Regex::matches_iter
MatchesIter(re, t, from, to) == MatchIter(re, t, from, to).found

\* the match of re that ends with the character at index p (one of Hits)
MatchEndingAt(re, t, p) ==
    CASE re.kind = "plus" -> MkMatch(RunStart(t, p + 1, re.c), p + 1, FALSE)
      [] re.kind = "alt" -> MkMatch(p, p + 1, t[p + 1] = re.c)
      [] OTHER -> MkMatch(p, p + 1, FALSE)

\* the rightmost match of re among the starts `hits`, all before index hi
LastMatch(re, t, hits, hi) ==
    IF re.kind = "star" THEN MkMatch(RunStart(t, hi, re.c), hi, FALSE)
    ELSE IF hits = {} THEN NoMatch
    ELSE MatchEndingAt(re, t, LastIdx(hits))

\* a reverse-compiled regex run over rev_iter_between(from, 0): the match
\* nearest before index from, reported in forward coordinates
MatchIterRev(re, t, from) ==
    LastMatch(re, t, Hits(re, t, 0, Min(from, Len(t))), Min(from, Len(t)))

(***************************************************************************)
(* Addresses.  An AddrBase is [kind, n, col, re]; a SimpleAddr is          *)
(* [base, suffixes]; an Addr is [kind, dot, a, b] with kind Explicit       *)
(* (dot), Simple (a) or Compound (a, b).                                   *)
(***************************************************************************)
AB(kind, n, col, re) == [kind |-> kind, n |-> n, col |-> col, re |-> re]

Current == AB("Current", 0, 0, NoRe)
CurrentLine == AB("CurrentLine", 0, 0, NoRe)
Bol == AB("Bol", 0, 0, NoRe)
Eol == AB("Eol", 0, 0, NoRe)
Bof == AB("Bof", 0, 0, NoRe)
Eof == AB("Eof", 0, 0, NoRe)
Line(n) == AB("Line", n, 0, NoRe)
RelativeLine(n) == AB("RelativeLine", n, 0, NoRe)
Char(n) == AB("Char", n, 0, NoRe)
RelativeChar(n) == AB("RelativeChar", n, 0, NoRe)
LineAndColumn(n, col) == AB("LineAndColumn", n, col, NoRe)
Regex(re) == AB("Regex", 0, 0, re)
RegexBack(re) == AB("RegexBack", 0, 0, re)

SimpleAddr(base, suffixes) == [base |-> base, suffixes |-> suffixes]

NoSimple == SimpleAddr(Current, <<>>)

Explicit(d) == [kind |-> "Explicit", dot |-> d, a |-> NoSimple, b |-> NoSimple]
Simple(a) == [kind |-> "Simple", dot |-> DefaultDot, a |-> a, b |-> NoSimple]
Compound(a, b) == [kind |-> "Compound", dot |-> DefaultDot, a |-> a, b |-> b]

\* Addr::full
Full == Compound(SimpleAddr(Bof, <<>>), SimpleAddr(Eof, <<>>))

IsValidSuffix(ab) ==
    ab.kind \in {"Bol", "Eol", "CurrentLine", "RelativeLine", "RelativeChar",
                 "Regex", "RegexBack"}

\* Option<Dot>, with the unwinding of a panic as a third outcome
SomeDot(d) == [st |-> "some", dot |-> d]
NoneDot == [st |-> "none", dot |-> DefaultDot]
PanicDot == [st |-> "panic", dot |-> DefaultDot]

\* Address::full_line, once line_to_char gave from and char_to_line_end gave e
FullLineDot(from, e) ==
    IF e = Absent THEN NoneDot
    ELSE IF e = Panic THEN PanicDot
    ELSE SomeDot(FromCharIndices(from, SatSub(e, 1)))

\* Address::full_line
FullLine(t, line_idx, oc) ==
    IF LineToChar(t, line_idx) = Absent THEN NoneDot
    ELSE FullLineDot(LineToChar(t, line_idx),
                     CharToLineEnd(t, LineToChar(t, line_idx), oc))

\* the result of a regex lookup as a Dot
MatchDot(m) ==
    IF m.found THEN SomeDot(FromCharIndices(m.from, SatSub(m.to, 1))) ELSE NoneDot

\* map_addr_base, Bol: ls is char_to_line_start(start)
BolDot(ls, cur_dot) ==
    IF ls = Absent THEN NoneDot ELSE SomeDot(FromCharIndices(ls, cur_dot.to))

\* map_addr_base, Eol: le is char_to_line_end(end)
EolDot(le, cur_dot) ==
    IF le = Absent THEN NoneDot
    ELSE IF le = Panic THEN PanicDot
    ELSE SomeDot(FromCharIndices(cur_dot.from, le))

\* map_addr_base, CurrentLine
CurrentLineDot(ls, le) ==
    IF ls = Absent \/ le = Absent THEN NoneDot
    ELSE IF le = Panic THEN PanicDot
    ELSE SomeDot(FromCharIndices(ls, le))

\* map_addr_base, RelativeLine: line_idx is char_to_line(active cursor)
RelativeLineDot(t, line_idx, offset, oc) ==
    IF line_idx = Absent THEN NoneDot
    ELSE FullLine(t, OffsetUsize(line_idx, offset), oc)

\* map_addr_base, LineAndColumn: idx is line_to_char(line), sum is idx + col
LineAndColumnDot(idx, sum) ==
    IF idx = Absent THEN NoneDot
    ELSE IF sum = Panic THEN PanicDot
    ELSE SomeDot(CurDot(sum))

\* Address::map_addr_base
MapAddrBase(t, ab, cur_dot, oc) ==
    CASE ab.kind = "Current" -> SomeDot(cur_dot)
      [] ab.kind = "Bof" -> SomeDot(CurDot(0))
      [] ab.kind = "Eof" -> SomeDot(CurDot(MaxIter(t)))
      [] ab.kind = "Bol" -> BolDot(CharToLineStart(t, cur_dot.from), cur_dot)
      [] ab.kind = "Eol" -> EolDot(CharToLineEnd(t, cur_dot.to, oc), cur_dot)
      [] ab.kind = "CurrentLine" ->
           CurrentLineDot(CharToLineStart(t, cur_dot.from), CharToLineEnd(t, cur_dot.to, oc))
      [] ab.kind = "Line" -> FullLine(t, ab.n, oc)
      [] ab.kind = "RelativeLine" ->
           RelativeLineDot(t, CharToLine(t, ActiveCur(cur_dot)), ab.n, oc)
      [] ab.kind = "Char" -> SomeDot(CurDot(ab.n))
      [] ab.kind = "RelativeChar" ->
           SomeDot(CurDot(OffsetUsize(ActiveCur(cur_dot), ab.n)))
      [] ab.kind = "LineAndColumn" ->
           LineAndColumnDot(LineToChar(t, ab.n), UAdd(LineToChar(t, ab.n), ab.col, oc))
      [] ab.kind = "Regex" ->
           MatchDot(MatchIter(ab.re, t, LastCur(cur_dot), MaxIter(t)))
      [] ab.kind = "RegexBack" ->
           MatchDot(MatchIterRev(ab.re, t, FirstCur(cur_dot)))
      [] OTHER -> NoneDot

RECURSIVE MapSuffixes(_, _, _, _, _)
\* the loop of map_simple_addr: suffixes i.. applied to dot r
MapSuffixes(t, suffixes, i, r, oc) ==
    IF r.st # "some" \/ i > Len(suffixes) THEN r
    ELSE MapSuffixes(t, suffixes, i + 1, MapAddrBase(t, suffixes[i], r.dot, oc), oc)

\* Address::map_simple_addr
MapSimpleAddr(t, addr, cur_dot, oc) ==
    MapSuffixes(t, addr.suffixes, 1, MapAddrBase(t, addr.base, cur_dot, oc), oc)

\* map_compound_addr, once its two sides gave d and e
CompoundDot(d, e) ==
    IF d.st # "some" THEN d
    ELSE IF e.st # "some" THEN e
    ELSE SomeDot(FromCursors(FirstCur(d.dot), LastCur(e.dot), FALSE))

\* Address::map_compound_addr
MapCompoundAddr(t, from, to, current_dot, oc) ==
    CompoundDot(MapSimpleAddr(t, from, current_dot, oc),
                MapSimpleAddr(t, to, current_dot, oc))

\* map_addr without clamp_idx
UnclampedDot(maybe_dot, max_idx) ==
    IF maybe_dot.st = "panic" THEN PanicDot
    ELSE IF maybe_dot.st = "none" THEN SomeDot(DefaultDot)
    ELSE SomeDot(maybe_dot.dot)

\* map_addr: unwrap_or_default and clamp_idx
ClampedDot(maybe_dot, max_idx) ==
    IF maybe_dot.st = "panic" THEN PanicDot
    ELSE IF maybe_dot.st = "none" THEN SomeDot(ClampIdx(DefaultDot, max_idx))
    ELSE SomeDot(ClampIdx(maybe_dot.dot, max_idx))

\* the Option<Dot> that map_addr matches on
MaybeDot(t, a, current_dot, oc) ==
    CASE a.kind = "Explicit" -> SomeDot(a.dot)
      [] a.kind = "Simple" -> MapSimpleAddr(t, a.a, current_dot, oc)
      [] OTHER -> MapCompoundAddr(t, a.a, a.b, current_dot, oc)

\* Address::map_addr: the Dot an Addr resolves to, or the unwinding of a panic
MapAddr(t, a, current_dot, oc) ==
    ClampedDot(MaybeDot(t, a, current_dot, oc), MaxIter(t))

(***************************************************************************)
(* Templates.  A template (like every string here) is a sequence of        *)
(* one-character strings.                                                  *)
(***************************************************************************)
FNAME_VAR == <<"$", "F", "I", "L", "E", "N", "A", "M", "E">>

TAB == "\t"

Digits == <<"0", "1", "2", "3", "4", "5", "6", "7", "8", "9">>

\* vars[n] of template_match: "$n"
Var(n) == <<"$", Digits[n + 1]>>

\* str::contains
Contains(s, pat) ==
    \E i \in 1..(Len(s) - Len(pat) + 1) : SubSeq(s, i, i + Len(pat) - 1) = pat

RECURSIVE Replace(_, _, _)
\* str::replace: every non-overlapping occurrence of pat, left to right
Replace(s, pat, rep) ==
    IF Len(s) < Len(pat) THEN s
    ELSE IF SubSeq(s, 1, Len(pat)) = pat
         THEN rep \o Replace(SubSeq(s, Len(pat) + 1, Len(s)), pat, rep)
         ELSE <<Head(s)>> \o Replace(Tail(s), pat, rep)

\* the characters of iter_between(from, to)
Between(t, from, to) == SubSeq(t, from + 1, Min(to, Len(t)))

\* Edit::submatch is Some(..) for submatch n of m
HasSubmatch(m, n) == SubLoc(m, n)[1] # Absent

\* Edit::submatch: the characters of submatch n
Submatch(t, m, n) == Between(t, SubLoc(m, n)[1], SubLoc(m, n)[2])

\* Result<String, Error>: the only error is InvalidSubstitution(err)
OkStr(s) == [ok |-> TRUE, s |-> s, err |-> 0]
InvalidSubstitution(n) == [ok |-> FALSE, s |-> <<>>, err |-> n]

\* the loop over vars of template_match without its check of the submatch
TemplateVarsUnchecked(s, output, m, t, n) == OkStr(output)

RECURSIVE TemplateVars(_, _, _, _, _)
\* the loop over vars of template_match, from variable n on
TemplateVars(s, output, m, t, n) ==
    IF n > 9 THEN OkStr(output)
    ELSE IF ~Contains(s, Var(n)) THEN TemplateVars(s, output, m, t, n + 1)
    ELSE IF ~HasSubmatch(m, n) THEN InvalidSubstitution(n)
    ELSE TemplateVars(s, Replace(output, Var(n), Submatch(t, m, n)), m, t, n + 1)

\* template_match
TemplateMatch(s, m, t, fname) ==
    LET named == IF Contains(s, FNAME_VAR) THEN Replace(s, FNAME_VAR, fname) ELSE s
        output == Replace(Replace(named, <<"\\", "n">>, <<NL>>), <<"\\", "t">>, <<TAB>>)
    IN TemplateVars(s, output, m, t, 0)

(***************************************************************************)
(* Edit for Buffer: insert and remove on the text.                         *)
(***************************************************************************)
\* the text with s inserted at index idx (an index past the end inserts at the end)
InsertStr(t, idx, s) ==
    SubSeq(t, 1, Min(idx, Len(t))) \o s \o SubSeq(t, Min(idx, Len(t)) + 1, Len(t))

\* the text without the characters [from, to) (cut at the end of the text)
RemoveRange(t, from, to) ==
    SubSeq(t, 1, Min(from, Len(t))) \o SubSeq(t, Min(Max(from, to), Len(t)) + 1, Len(t))

\* Edit::insert one character too far to the right
EdInsertAfter(t, idx, s) == InsertStr(t, idx + 1, s)

\* Edit::insert
EdInsert(t, idx, s) == InsertStr(t, idx, s)

\* Edit::remove that also takes the character at index to
EdRemoveThrough(t, from, to) == RemoveRange(t, from, to + 1)

\* Edit::remove
EdRemove(t, from, to) == IF from = to THEN t ELSE RemoveRange(t, from, to)

(***************************************************************************)
(* Expressions and programs.  An Expr is [op, re, tpl, g].                 *)
(***************************************************************************)
Ex(op, re, tpl, g) == [op |-> op, re |-> re, tpl |-> tpl, g |-> g]

Group(g) == Ex("Group", NoRe, <<>>, g)
LoopMatches(re) == Ex("LoopMatches", re, <<>>, <<>>)
LoopBetweenMatches(re) == Ex("LoopBetweenMatches", re, <<>>, <<>>)
IfContains(re) == Ex("IfContains", re, <<>>, <<>>)
IfNotContains(re) == Ex("IfNotContains", re, <<>>, <<>>)
PrintE(tpl) == Ex("Print", NoRe, tpl, <<>>)
Insert(tpl) == Ex("Insert", NoRe, tpl, <<>>)
AppendE(tpl) == Ex("Append", NoRe, tpl, <<>>)
Change(tpl) == Ex("Change", NoRe, tpl, <<>>)
Sub(re, tpl) == Ex("Sub", re, tpl, <<>>)
Delete == Ex("Delete", NoRe, <<>>, <<>>)

IsActionOrGuard(e) ==
    e.op \notin {"LoopMatches", "LoopBetweenMatches"}

IsAction(e) ==
    e.op \in {"Group", "Insert", "Append", "Change", "Sub", "Print", "Delete"}

\* validate without the checks of the branches and of the last expression
ValidateNonEmpty(exprs) == exprs # <<>>

RECURSIVE Validate(_)
\* validate: TRUE for Ok(())
Validate(exprs) ==
    /\ exprs # <<>>
    /\ \A i \in 1..Len(exprs) :
          exprs[i].op = "Group" =>
              \A j \in 1..Len(exprs[i].g) : Validate(exprs[i].g[j])
    /\ IsAction(exprs[Len(exprs)])

Program(initial_dot, exprs) == [initial_dot |-> initial_dot, exprs |-> exprs]

(***************************************************************************)
(* The state of one call of Program::execute on a Buffer.                  *)
(***************************************************************************)
VARIABLES
    txt,          \* the characters of the buffer (ed)
    current_dot,  \* the buffer's dot when execute is called
    oc,           \* the build checks integer overflow (debug) or wraps (release)
    fname,        \* the file name handed to execute
    input,        \* the program text handed to Program::try_parse
    it,           \* try_parse: the number of characters the iterator has yielded
    parsed,       \* what try_parse returned
    prog,         \* the Program being executed
    out,          \* the characters written to the output sink
    stack,        \* the activations of step / apply_matches, innermost last
    ret,          \* the Result the innermost finished call handed to its caller
    phase,        \* "init", "run" (inside the transaction) or "done"
    result,       \* what execute returned
    orig,         \* history: the text when execute was called
    log,          \* history: the calls made on ed, in order
    mode,         \* the Mode whose handle_keys is called
    keys,         \* the pending keys, the Vec<Input> handed to handle_keys
    last          \* history: the lookups and the return value of the last call

vars == <<txt, current_dot, oc, fname, input, it, parsed, prog, out, stack, ret, phase,
          result, orig, log, mode, keys, last>>

\* Result<Program, Error> of try_parse: the Program is prog when it is Ok
NoParse == [st |-> "none", err |-> "", ch |-> ""]
OkParse == [st |-> "ok", err |-> "", ch |-> ""]
ErrParse(err, ch) == [st |-> "err", err |-> err, ch |-> ch]

\* the file name of the runs that do not vary it
FName == <<"f">>

(***************************************************************************)
(* Modal key handling (src/src/mode/mod.rs).  A keymap is a function from  *)
(* key sequences to actions, no key of it a prefix of another; a           *)
(* QueryResult is [kind, v].                                               *)
(***************************************************************************)
\* longest list of pending keys
MaxKeys == 3

Val(v) == [kind |-> "Val", v |-> v]
Partial == [kind |-> "Partial", v |-> 0]
Missing == [kind |-> "Missing", v |-> 0]

\* p is a proper prefix of k
IsProperPrefix(p, k) == Len(p) < Len(k) /\ SubSeq(k, 1, Len(p)) = p

\* Trie::get: the value of a key, Partial for the beginning of one
Get(keymap, ks) ==
    IF ks \in DOMAIN keymap THEN Val(keymap[ks])
    ELSE IF \E k \in DOMAIN keymap : IsProperPrefix(ks, k) THEN Partial
    ELSE Missing

\* Trie::from_pairs(Vec::new())
EmptyKeymap == [k \in {} |-> 0]

\* the function a Mode holds in handle_expired_pending, called on the keys
HandleExpiredPending(h, ks) ==
    CASE h = "missing" -> Missing
      [] h = "single" -> IF Len(ks) = 1 THEN Val(4) ELSE Missing
      [] h = "pair" -> IF Len(ks) = 1 THEN Partial
                       ELSE IF Len(ks) = 2 THEN Val(5) ELSE Missing

Mode(name, keymap, h) == [name |-> name, keymap |-> keymap, handle_expired_pending |-> h]

\* Mode::ephemeral_mode
EphemeralMode(name) == Mode(name, EmptyKeymap, "missing")

\* Option<Actions>
None == [some |-> FALSE, v |-> 0]
Some(v) == [some |-> TRUE, v |-> v]

\* no call of handle_keys has been made on the keys as they are
NoCall == [called |-> FALSE, get |-> Missing, expired |-> Missing, ret |-> None]
Called(get, expired, r) == [called |-> TRUE, get |-> get, expired |-> expired, ret |-> r]

\* Vec::clear that leaves the keys in place
ClearKept(ks) == ks

\* Vec::clear
Clear(ks) == <<>>

\* no Mode is handling keys
NoKeys ==
    /\ mode = EphemeralMode(<<>>)
    /\ keys = <<>>
    /\ last = NoCall

\* a call made on the Edit
Ev(ev, a, b) == [ev |-> ev, a |-> a, b |-> b]

\* Result<Dot, Error> handed between activations
NoRet == [st |-> "none", dot |-> DefaultDot, err |-> 0]
OkRet(d) == [st |-> "ok", dot |-> d, err |-> 0]
ErrRet(n) == [st |-> "err", dot |-> DefaultDot, err |-> n]
PanicRet == [st |-> "panic", dot |-> DefaultDot, err |-> 0]

\* an activation: step (about to dispatch exprs[pc] on m), the match
\* collection loops of x and y, the loop of apply_matches, the loop of Group
Frame(kind, exprs, pc, m) ==
    [kind |-> kind, exprs |-> exprs, pc |-> pc, m |-> m, from |-> m.from,
     matches |-> <<>>, k |-> 0, offset |-> 0, dot |-> DefaultDot, cur_len |-> 0,
     txt0 |-> <<>>]

Top == stack[Len(stack)]
Pop == SubSeq(stack, 1, Len(stack) - 1)
Push(f) == Append(stack, f)
ReplaceTop(f) == Append(Pop, f)

\* the innermost activation is a step about to dispatch an expression op
AtStep(op) ==
    /\ phase = "run"
    /\ ret.st = "none"
    /\ stack # <<>>
    /\ Top.kind = "step"
    /\ Top.pc < Len(Top.exprs)
    /\ Top.exprs[Top.pc + 1].op = op

TopExpr == Top.exprs[Top.pc + 1]

\* the innermost activation is the loop `kind`, between two iterations
AtLoop(kind) ==
    /\ phase = "run"
    /\ stack # <<>>
    /\ Top.kind = kind

\* Program::execute, up to the call of step
Execute ==
    /\ phase = "init"
    /\ \E r \in {MapAddr(txt, prog.initial_dot, current_dot, oc)} :
          IF r.st = "panic"
          THEN /\ result' = PanicRet
               /\ phase' = "done"
               /\ UNCHANGED <<stack, log>>
          ELSE IF prog.exprs = <<>>
          THEN /\ result' = OkRet(r.dot)
               /\ phase' = "done"
               /\ UNCHANGED <<stack, log>>
          ELSE /\ log' = Append(log, Ev("begin", 0, 0))
               /\ stack' = <<Frame("step", prog.exprs, 0,
                                   Synthetic(r.dot.from, SatAdd(r.dot.to, 1)))>>
               /\ phase' = "run"
               /\ UNCHANGED result
    /\ UNCHANGED <<txt, current_dot, oc, fname, input, it, parsed, prog, out, ret, orig, mode, keys, last>>

\* the Dot execute returns: the cursors of step's dot clamped to ix_max
FinalDotUnclamped(d, ix_max) == FromCharIndices(d.from, d.to)

FinalDot(d, ix_max) == FromCharIndices(Min(d.from, ix_max), Min(d.to, ix_max))

\* Program::execute, after step returned Ok
ExecuteReturn ==
    /\ phase = "run"
    /\ stack = <<>>
    /\ ret.st = "ok"
    /\ log' = Append(log, Ev("end", 0, 0))
    /\ result' = OkRet(FinalDot(ret.dot, LenChars(txt)))
    /\ phase' = "done"
    /\ ret' = NoRet
    /\ UNCHANGED <<txt, current_dot, oc, fname, input, it, parsed, prog, out, stack, orig, mode, keys, last>>

\* Program::execute, the `?` on the result of step
ExecuteError ==
    /\ phase = "run"
    /\ stack = <<>>
    /\ ret.st = "err"
    /\ result' = ret
    /\ phase' = "done"
    /\ ret' = NoRet
    /\ UNCHANGED <<txt, current_dot, oc, fname, input, it, parsed, prog, out, stack, orig, log, mode, keys, last>>

\* the `?` of apply_matches and of Group on the result of an inner step
PropagateError ==
    /\ phase = "run"
    /\ stack # <<>>
    /\ ret.st = "err"
    /\ stack' = Pop
    /\ UNCHANGED <<txt, current_dot, oc, fname, input, it, parsed, prog, out, ret, phase, result, orig, log, mode, keys, last>>

\* write!(out, "{s}"): the sink after s is written to it
WrittenBefore(o, s) == s \o o

Written(o, s) == o \o s

\* step, Expr::Print
StepPrint ==
    /\ AtStep("Print")
    /\ LET m == Top.m
           s == TemplateMatch(TopExpr.tpl, m, txt, fname)
       IN IF s.ok
          THEN /\ out' = Written(out, s.s)
               /\ ret' = OkRet(FromCharIndices(m.from, m.to))
          ELSE /\ out' = out
               /\ ret' = ErrRet(s.err)
    /\ stack' = Pop
    /\ UNCHANGED <<txt, current_dot, oc, fname, input, it, parsed, prog, phase, result, orig, log, mode, keys, last>>

\* step, Expr::Insert
StepInsert ==
    /\ AtStep("Insert")
    /\ LET m == Top.m
           s == TemplateMatch(TopExpr.tpl, m, txt, fname)
       IN IF s.ok
          THEN /\ txt' = EdInsert(txt, m.from, s.s)
               /\ log' = Append(log, Ev("insert", m.from, Len(s.s)))
               /\ ret' = OkRet(FromCharIndices(m.from, m.to + Len(s.s)))
          ELSE /\ UNCHANGED <<txt, log>>
               /\ ret' = ErrRet(s.err)
    /\ stack' = Pop
    /\ UNCHANGED <<current_dot, oc, fname, input, it, parsed, prog, out, phase, result, orig, mode, keys, last>>

\* step, Expr::Append
StepAppend ==
    /\ AtStep("Append")
    /\ LET m == Top.m
           s == TemplateMatch(TopExpr.tpl, m, txt, fname)
       IN IF s.ok
          THEN /\ txt' = EdInsert(txt, m.to, s.s)
               /\ log' = Append(log, Ev("insert", m.to, Len(s.s)))
               /\ ret' = OkRet(FromCharIndices(m.from, m.to + Len(s.s)))
          ELSE /\ UNCHANGED <<txt, log>>
               /\ ret' = ErrRet(s.err)
    /\ stack' = Pop
    /\ UNCHANGED <<current_dot, oc, fname, input, it, parsed, prog, out, phase, result, orig, mode, keys, last>>

\* step, Expr::Change
StepChange ==
    /\ AtStep("Change")
    /\ LET m == Top.m
           s == TemplateMatch(TopExpr.tpl, m, txt, fname)
       IN IF s.ok
          THEN /\ txt' = EdInsert(EdRemove(txt, m.from, m.to), m.from, s.s)
               /\ log' = log \o <<Ev("remove", m.from, m.to), Ev("insert", m.from, Len(s.s))>>
               /\ ret' = OkRet(FromCharIndices(m.from, m.from + Len(s.s)))
          ELSE /\ UNCHANGED <<txt, log>>
               /\ ret' = ErrRet(s.err)
    /\ stack' = Pop
    /\ UNCHANGED <<current_dot, oc, fname, input, it, parsed, prog, out, phase, result, orig, mode, keys, last>>

\* step, Expr::Delete
StepDelete ==
    /\ AtStep("Delete")
    /\ LET m == Top.m IN
       /\ txt' = EdRemove(txt, m.from, m.to)
       /\ log' = Append(log, Ev("remove", m.from, m.to))
       /\ ret' = OkRet(FromCharIndices(m.from, m.from))
    /\ stack' = Pop
    /\ UNCHANGED <<current_dot, oc, fname, input, it, parsed, prog, out, phase, result, orig, mode, keys, last>>

\* step, Expr::Sub
StepSub ==
    /\ AtStep("Sub")
    /\ LET from == Top.m.from
           to == Top.m.to
           m == MatchIter(TopExpr.re, txt, from, to)
           s == TemplateMatch(TopExpr.tpl, m, txt, fname)
       IN IF ~m.found
          THEN /\ UNCHANGED <<txt, log>>
               /\ ret' = OkRet(FromCharIndices(from, to))
          ELSE IF s.ok
          THEN /\ txt' = EdInsert(EdRemove(txt, m.from, m.to), m.from, s.s)
               /\ log' = log \o <<Ev("remove", m.from, m.to), Ev("insert", m.from, Len(s.s))>>
               /\ ret' = OkRet(FromCharIndices(from, to - (m.to - m.from) + Len(s.s)))
          ELSE /\ UNCHANGED <<txt, log>>
               /\ ret' = ErrRet(s.err)
    /\ stack' = Pop
    /\ UNCHANGED <<current_dot, oc, fname, input, it, parsed, prog, out, phase, result, orig, mode, keys, last>>

\* step, Expr::IfContains
StepIfContains ==
    /\ AtStep("IfContains")
    /\ LET m == Top.m IN
       IF MatchesIter(TopExpr.re, txt, m.from, m.to)
       THEN /\ stack' = ReplaceTop(Frame("step", Top.exprs, Top.pc + 1, m))
            /\ ret' = ret
       ELSE /\ stack' = Pop
            /\ ret' = OkRet(FromCharIndices(m.from, m.to))
    /\ UNCHANGED <<txt, current_dot, oc, fname, input, it, parsed, prog, out, phase, result, orig, log, mode, keys, last>>

\* step, Expr::IfNotContains
StepIfNotContains ==
    /\ AtStep("IfNotContains")
    /\ LET m == Top.m IN
       IF ~MatchesIter(TopExpr.re, txt, m.from, m.to)
       THEN /\ stack' = ReplaceTop(Frame("step", Top.exprs, Top.pc + 1, m))
            /\ ret' = ret
       ELSE /\ stack' = Pop
            /\ ret' = OkRet(FromCharIndices(m.from, m.to))
    /\ UNCHANGED <<txt, current_dot, oc, fname, input, it, parsed, prog, out, phase, result, orig, log, mode, keys, last>>

\* step, Expr::Group: the first branch is called
StepGroup ==
    /\ AtStep("Group")
    /\ LET m == Top.m
           g == TopExpr.g
           dot == FromCharIndices(m.from, m.to)
       IN IF g = <<>>
          THEN /\ stack' = Pop
               /\ ret' = OkRet(dot)
          ELSE /\ stack' = Append(ReplaceTop([Top EXCEPT !.kind = "group", !.k = 1, !.dot = dot]),
                                  Frame("step", g[1], 0, m))
               /\ ret' = ret
    /\ UNCHANGED <<txt, current_dot, oc, fname, input, it, parsed, prog, out, phase, result, orig, log, mode, keys, last>>

\* step, Expr::Group: a branch returned Ok, the next one is called
GroupReturn ==
    /\ AtLoop("group")
    /\ ret.st = "ok"
    /\ LET g == TopExpr.g IN
       IF Top.k < Len(g)
       THEN /\ stack' = Append(ReplaceTop([Top EXCEPT !.k = Top.k + 1, !.dot = ret.dot]),
                               Frame("step", g[Top.k + 1], 0, Top.m))
            /\ ret' = NoRet
       ELSE /\ stack' = Pop
            /\ ret' = OkRet(ret.dot)
    /\ UNCHANGED <<txt, current_dot, oc, fname, input, it, parsed, prog, out, phase, result, orig, log, mode, keys, last>>

\* the activation of apply_matches that takes over from a collection loop
ApplyFrame(f, from, initial_matches, t) ==
    [f EXCEPT !.kind = "apply", !.from = from, !.matches = initial_matches, !.k = 0,
              !.offset = 0, !.dot = FromCharIndices(f.m.from, f.m.to), !.txt0 = t]

\* step, Expr::LoopMatches: entry
StepLoopMatches ==
    /\ AtStep("LoopMatches")
    /\ stack' = ReplaceTop([Top EXCEPT !.kind = "collect_x", !.from = Top.m.from,
                                       !.matches = <<>>])
    /\ UNCHANGED <<txt, current_dot, oc, fname, input, it, parsed, prog, out, ret, phase, result, orig, log, mode, keys, last>>

\* the search start of the next iteration without the step past an empty match
NewFromNoAdvance(m, from) == m.to

\* the search start of the next iteration of the LoopMatches loop
NewFrom(m, from) == IF m.to = from THEN m.to + 1 ELSE m.to

\* step, Expr::LoopMatches: one evaluation of the `while let` and its body
LoopMatchesIter ==
    /\ AtLoop("collect_x")
    /\ LET f == Top
           to == f.m.to
           m == MatchIter(TopExpr.re, txt, f.from, to)
           from == NewFrom(m, f.from)
       IN IF ~m.found
          THEN stack' = ReplaceTop(ApplyFrame(f, f.from, f.matches, txt))
          ELSE IF from >= to \/ from >= MaxIter(txt)
          THEN stack' = ReplaceTop(ApplyFrame(f, from, Append(f.matches, m), txt))
          ELSE stack' = ReplaceTop([f EXCEPT !.from = from, !.matches = Append(f.matches, m)])
    /\ UNCHANGED <<txt, current_dot, oc, fname, input, it, parsed, prog, out, ret, phase, result, orig, log, mode, keys, last>>

\* step, Expr::LoopBetweenMatches: entry
StepLoopBetweenMatches ==
    /\ AtStep("LoopBetweenMatches")
    /\ stack' = ReplaceTop([Top EXCEPT !.kind = "collect_y", !.from = Top.m.from,
                                       !.matches = <<>>])
    /\ UNCHANGED <<txt, current_dot, oc, fname, input, it, parsed, prog, out, ret, phase, result, orig, log, mode, keys, last>>

\* the end of LoopBetweenMatches: the gap after the last match
WithLastGap(initial_matches, from, to) ==
    IF from < to THEN Append(initial_matches, Synthetic(from, to)) ELSE initial_matches

\* step, Expr::LoopBetweenMatches: one evaluation of the `while let` and its body
LoopBetweenMatchesIter ==
    /\ AtLoop("collect_y")
    /\ LET f == Top
           to == f.m.to
           m == MatchIter(TopExpr.re, txt, f.from, to)
           pushed == IF f.from < m.from
                     THEN Append(f.matches, Synthetic(f.from, m.from))
                     ELSE f.matches
       IN IF ~m.found
          THEN stack' = ReplaceTop(ApplyFrame(f, f.from, WithLastGap(f.matches, f.from, to), txt))
          ELSE IF m.to > to \/ m.to >= MaxIter(txt)
          THEN stack' = ReplaceTop(ApplyFrame(f, m.to, WithLastGap(pushed, m.to, to), txt))
          ELSE stack' = ReplaceTop([f EXCEPT !.from = m.to, !.matches = pushed])
    /\ UNCHANGED <<txt, current_dot, oc, fname, input, it, parsed, prog, out, ret, phase, result, orig, log, mode, keys, last>>

\* apply_matches: the next match is shifted and handed to step, or the loop ends
ApplyNext ==
    /\ AtLoop("apply")
    /\ ret.st = "none"
    /\ LET f == Top IN
       IF f.k < Len(f.matches)
       THEN /\ stack' = Append(ReplaceTop([f EXCEPT !.k = f.k + 1, !.cur_len = LenChars(txt)]),
                               Frame("step", f.exprs, f.pc + 1,
                                     ApplyOffset(f.matches[f.k + 1], f.offset)))
            /\ ret' = ret
       ELSE /\ stack' = Pop
            /\ ret' = OkRet(f.dot)
    /\ UNCHANGED <<txt, current_dot, oc, fname, input, it, parsed, prog, out, phase, result, orig, log, mode, keys, last>>

\* the offset of apply_matches after an iteration: offset += new_len - cur_len
NextOffsetOfLast(offset, new_len, cur_len) == new_len - cur_len

NextOffset(offset, new_len, cur_len) == offset + new_len - cur_len

\* apply_matches goes on with its loop when step returned Ok (`?` otherwise)
StepOkOrErr(r) == r.st # "none"

StepOk(r) == r.st = "ok"

\* apply_matches: step returned Ok
ApplyReturn ==
    /\ AtLoop("apply")
    /\ StepOk(ret)
    /\ stack' = ReplaceTop([Top EXCEPT !.dot = ret.dot,
                                       !.offset = NextOffset(Top.offset, LenChars(txt), Top.cur_len)])
    /\ ret' = NoRet
    /\ UNCHANGED <<txt, current_dot, oc, fname, input, it, parsed, prog, out, phase, result, orig, log, mode, keys, last>>

(***************************************************************************)
(* Parsing of addresses: Addr::parse over a Peekable<Chars>.  A position   *)
(* is the number of characters the iterator has yielded; "" is None.       *)
(***************************************************************************)
\* Peekable::peek at position i of s
Peek(s, i) == IF i < Len(s) THEN s[i + 1] ELSE ""

\* char::is_ascii_digit
IsDigit(c) == c \in {Digits[k] : k \in 1..10}

DigitValue(c) == CHOOSE n \in 0..9 : Digits[n + 1] = c

RECURSIVE NumEnd(_, _)
\* parse_num: the position after the digits that follow position i
NumEnd(s, i) == IF IsDigit(Peek(s, i)) THEN NumEnd(s, i + 1) ELSE i

RECURSIVE NumValue(_, _, _)
\* parse_num: the number written by the digits s[a..b]
NumValue(s, a, b) ==
    IF a > b THEN 0 ELSE (NumValue(s, a, b - 1) * 10 + DigitValue(s[b])) % UsizeMod

\* whether the parentheses of a pattern pair up
Balanced(p) ==
    Cardinality({i \in 1..Len(p) : p[i] = "("}) = Cardinality({i \in 1..Len(p) : p[i] = ")"})

\* Regex::compile / Regex::compile_reverse: NoRe for a pattern that does not
\* compile; a pattern that compiles to none of the four kinds is of kind
\* other, which is parsed but never run
Compile(p) ==
    IF Len(p) = 1 /\ p[1] \in {"a", "b"} THEN Re("lit", p[1], "")
    ELSE IF Len(p) = 2 /\ p[1] \in {"a", "b"} /\ p[2] = "+" THEN Re("plus", p[1], "")
    ELSE IF Len(p) = 2 /\ p[1] \in {"a", "b"} /\ p[2] = "*" THEN Re("star", p[1], "")
    ELSE IF Len(p) = 5 /\ p[1] = "(" /\ p[3] = ")" /\ p[4] = "|"
            /\ p[2] \in {"a", "b"} /\ p[5] \in {"a", "b"}
    THEN Re("alt", p[2], p[5])
    ELSE IF Balanced(p) THEN Re("other", "", "")
    ELSE NoRe

\* Result<T, ParseError> with the position the iterator is left at
POk(v, pos) == [st |-> "ok", v |-> v, pos |-> pos, ch |-> ""]
PErr(err, pos, ch) == [st |-> err, v |-> Current, pos |-> pos, ch |-> ch]

\* the index of the `/` that closes a regex opened before position i, 0 if none
ClosingAt(s, i) ==
    LET ends == {k \in i + 1..Len(s) :
                    s[k] = "/" /\ (IF k = i + 1 THEN "/" ELSE s[k - 1]) # "\\"}
    IN IF ends = {} THEN 0 ELSE CHOOSE k \in ends : \A x \in ends : k <= x

\* parse_delimited_regex with the closing `/` at index k
DelimitedRegexAt(s, i, k, dir) ==
    IF k = 0 THEN PErr("UnclosedDelimiter", Len(s), "")
    ELSE IF Compile(SubSeq(s, i + 1, k - 1)) = NoRe THEN PErr("InvalidRegex", k, "")
    ELSE IF dir = "+" THEN POk(Regex(Compile(SubSeq(s, i + 1, k - 1))), k)
    ELSE POk(RegexBack(Compile(SubSeq(s, i + 1, k - 1))), k)

\* parse_delimited_regex
ParseDelimitedRegex(s, i, dir) == DelimitedRegexAt(s, i, ClosingAt(s, i), dir)

\* AddrBase::parse after `#`
CharAddrAt(s, k, dir) ==
    IF ~IsDigit(Peek(s, k)) THEN PErr("NotAnAddress", k, "")
    ELSE IF dir = "" THEN POk(Char(NumValue(s, k + 1, NumEnd(s, k + 1))), NumEnd(s, k + 1))
    ELSE IF dir = "+"
    THEN POk(RelativeChar(NumValue(s, k + 1, NumEnd(s, k + 1))), NumEnd(s, k + 1))
    ELSE POk(RelativeChar(0 - NumValue(s, k + 1, NumEnd(s, k + 1))), NumEnd(s, k + 1))

\* AddrBase::parse after the digits of a line number that end at position e
LineAddrAt(s, line, e, dir) ==
    IF Peek(s, e) = ":" /\ dir # "" THEN PErr("NotAnAddress", e, "")
    ELSE IF Peek(s, e) = ":"
    THEN IF IsDigit(Peek(s, e + 1))
         THEN POk(LineAndColumn(SatSub(line, 1),
                                SatSub(NumValue(s, e + 2, NumEnd(s, e + 2)), 1)),
                  NumEnd(s, e + 2))
         ELSE IF Peek(s, e + 1) = "" THEN PErr("NotAnAddress", e + 1, "")
         ELSE PErr("UnexpectedCharacter", e + 2, Peek(s, e + 1))
    ELSE IF dir = "" THEN POk(Line(SatSub(line, 1)), e)
    ELSE IF dir = "+" THEN POk(RelativeLine(line), e)
    ELSE POk(RelativeLine(0 - line), e)

\* AddrBase::parse after the optional direction
AddrBaseAt(s, j, dir) ==
    IF Peek(s, j) \in {".", "0", "$"} /\ dir # "" THEN PErr("NotAnAddress", j, "")
    ELSE IF (Peek(s, j) = "-" /\ dir = "+") \/ (Peek(s, j) = "+" /\ dir = "-")
    THEN POk(CurrentLine, j + 1)
    ELSE IF Peek(s, j) = "." THEN POk(Current, j + 1)
    ELSE IF Peek(s, j) = "0" THEN POk(Bof, j + 1)
    ELSE IF Peek(s, j) = "$" THEN POk(Eof, j + 1)
    ELSE IF Peek(s, j) = "#" THEN CharAddrAt(s, j + 1, dir)
    ELSE IF IsDigit(Peek(s, j))
    THEN LineAddrAt(s, NumValue(s, j + 1, NumEnd(s, j + 1)), NumEnd(s, j + 1), dir)
    ELSE IF Peek(s, j) = "/" THEN ParseDelimitedRegex(s, j + 1, IF dir = "" THEN "+" ELSE dir)
    ELSE IF dir = "+" THEN POk(Eol, j)
    ELSE IF dir = "-" THEN POk(Bol, j)
    ELSE PErr("NotAnAddress", j, "")

\* AddrBase::parse
AddrBaseParse(s, i) ==
    IF Peek(s, i) \in {"-", "+"} THEN AddrBaseAt(s, i + 1, Peek(s, i)) ELSE AddrBaseAt(s, i, "")

RECURSIVE SuffixesParse(_, _, _, _)
\* SimpleAddr::parse: the loop over the suffixes
SuffixesParse(s, i, base, suffixes) ==
    IF Peek(s, i) \notin {"-", "+"} THEN POk(SimpleAddr(base, suffixes), i)
    ELSE LET a == AddrBaseParse(s, i) IN
         IF a.st # "ok" THEN a
         ELSE IF ~IsValidSuffix(a.v) THEN PErr("InvalidSuffix", a.pos, "")
         ELSE SuffixesParse(s, a.pos, base, Append(suffixes, a.v))

\* SimpleAddr::parse
SimpleAddrParse(s, i) ==
    LET base == AddrBaseParse(s, i) IN
    IF base.st # "ok" THEN base ELSE SuffixesParse(s, base.pos, base.v, <<>>)

\* Addr::parse after the `,`
CompoundEnd(s, start, end) ==
    IF end.st = "ok" THEN POk(Compound(start, end.v), end.pos)
    ELSE IF end.st = "NotAnAddress" THEN POk(Compound(start, SimpleAddr(Eof, <<>>)), end.pos)
    ELSE end

\* Addr::parse after the first SimpleAddr::parse
AddrAfterStart(s, start) ==
    IF start.st \notin {"ok", "NotAnAddress"} THEN start
    ELSE IF Peek(s, start.pos) \in {" ", ""}
    THEN IF start.st = "ok" THEN POk(Simple(start.v), start.pos)
         ELSE PErr("NotAnAddress", start.pos, "")
    ELSE IF Peek(s, start.pos) = ","
    THEN CompoundEnd(s, IF start.st = "ok" THEN start.v ELSE SimpleAddr(Bof, <<>>),
                     SimpleAddrParse(s, start.pos + 1))
    ELSE PErr("NotAnAddress", start.pos, "")

\* Addr::parse
AddrParse(s, i) == AddrAfterStart(s, SimpleAddrParse(s, i))

(***************************************************************************)
(* Parsing of expressions (Expr::try_parse) and Program::try_parse.        *)
(***************************************************************************)
IsWhitespace(c) == c \in {" ", NL, TAB}

RECURSIVE SkipWs(_, _)
\* consume_whitespace
SkipWs(s, i) == IF IsWhitespace(Peek(s, i)) THEN SkipWs(s, i + 1) ELSE i

RECURSIVE TrimStart(_)
TrimStart(s) == IF s # <<>> /\ IsWhitespace(s[1]) THEN TrimStart(Tail(s)) ELSE s

RECURSIVE TrimEnd(_)
TrimEnd(s) ==
    IF s # <<>> /\ IsWhitespace(s[Len(s)]) THEN TrimEnd(SubSeq(s, 1, Len(s) - 1)) ELSE s

\* str::trim
Trim(s) == TrimEnd(TrimStart(s))

\* Result<ParseOutput, Error> of Expr::try_parse with the position it stops at
EOk(e, pos) == [st |-> "ok", v |-> e, pos |-> pos, ch |-> ""]
EErr(err, pos, ch) == [st |-> err, v |-> Delete, pos |-> pos, ch |-> ch]

\* the index of the delimiter that closes the field opened by the delimiter
\* at index open, 0 if none
ClosingDelim(s, open) ==
    LET ends == {k \in open + 1..Len(s) :
                    s[k] = s[open] /\ (k = open + 1 \/ s[k - 1] # "\\")}
    IN IF ends = {} THEN 0 ELSE CHOOSE k \in ends : \A x \in ends : k <= x

\* a command with a regex field: x y g v
RegexCommand(s, i, op, k) ==
    IF Peek(s, i) = "" THEN EErr("Eof", i, "")
    ELSE IF k = 0 THEN EErr("UnclosedDelimiter", Len(s), Peek(s, i))
    ELSE IF Compile(SubSeq(s, i + 2, k - 1)) = NoRe THEN EErr("InvalidRegex", k, "")
    ELSE EOk(Ex(op, Compile(SubSeq(s, i + 2, k - 1)), <<>>, <<>>), k)

\* a command with a template field: p i a c
TemplateCommand(s, i, op, k) ==
    IF Peek(s, i) = "" THEN EErr("Eof", i, "")
    ELSE IF k = 0 THEN EErr("UnclosedDelimiter", Len(s), Peek(s, i))
    ELSE EOk(Ex(op, NoRe, SubSeq(s, i + 2, k - 1), <<>>), k)

\* the command s with its regex and template fields
SubCommand(s, i, k, k2) ==
    IF Peek(s, i) = "" THEN EErr("Eof", i, "")
    ELSE IF k = 0 \/ k2 = 0 THEN EErr("UnclosedDelimiter", Len(s), Peek(s, i))
    ELSE IF Compile(SubSeq(s, i + 2, k - 1)) = NoRe THEN EErr("InvalidRegex", k, "")
    ELSE EOk(Sub(Compile(SubSeq(s, i + 2, k - 1)), SubSeq(s, k + 1, k2 - 1)), k2)

RECURSIVE ExprParse(_, _)
RECURSIVE GroupParse(_, _, _, _)
\* Expr::try_parse
ExprParse(s, i) ==
    IF Peek(s, i) = "" THEN EErr("Eof", i, "")
    ELSE IF Peek(s, i) = "x" THEN RegexCommand(s, i + 1, "LoopMatches", ClosingDelim(s, i + 2))
    ELSE IF Peek(s, i) = "y"
    THEN RegexCommand(s, i + 1, "LoopBetweenMatches", ClosingDelim(s, i + 2))
    ELSE IF Peek(s, i) = "g" THEN RegexCommand(s, i + 1, "IfContains", ClosingDelim(s, i + 2))
    ELSE IF Peek(s, i) = "v" THEN RegexCommand(s, i + 1, "IfNotContains", ClosingDelim(s, i + 2))
    ELSE IF Peek(s, i) = "p" THEN TemplateCommand(s, i + 1, "Print", ClosingDelim(s, i + 2))
    ELSE IF Peek(s, i) = "i" THEN TemplateCommand(s, i + 1, "Insert", ClosingDelim(s, i + 2))
    ELSE IF Peek(s, i) = "a" THEN TemplateCommand(s, i + 1, "Append", ClosingDelim(s, i + 2))
    ELSE IF Peek(s, i) = "c" THEN TemplateCommand(s, i + 1, "Change", ClosingDelim(s, i + 2))
    ELSE IF Peek(s, i) = "s"
    THEN SubCommand(s, i + 1, ClosingDelim(s, i + 2),
                    IF ClosingDelim(s, i + 2) = 0 THEN 0
                    ELSE ClosingDelim(s, ClosingDelim(s, i + 2)))
    ELSE IF Peek(s, i) = "d" THEN EOk(Delete, i + 1)
    ELSE IF Peek(s, i) = "{" THEN GroupParse(s, SkipWs(s, i + 1), <<>>, <<>>)
    ELSE EErr("UnexpectedCharacter", i + 1, Peek(s, i))

\* Expr::try_parse inside `{`: the branches read so far and the one being read
GroupParse(s, i, branches, cur) ==
    IF Peek(s, i) = "" THEN EErr("UnclosedExpressionGroup", i, "")
    ELSE IF Peek(s, i) = "}"
    THEN IF cur = <<>> /\ branches = <<>> THEN EErr("EmptyExpressionGroup", i + 1, "")
         ELSE IF cur = <<>> THEN EErr("EmptyExpressionGroupBranch", i + 1, "")
         ELSE EOk(Group(Append(branches, cur)), i + 1)
    ELSE IF Peek(s, i) = ";"
    THEN IF cur = <<>> THEN EErr("EmptyExpressionGroupBranch", i + 1, "")
         ELSE GroupParse(s, SkipWs(s, i + 1), Append(branches, cur), <<>>)
    ELSE LET e == ExprParse(s, i) IN
         IF e.st = "Eof" THEN EErr("UnclosedExpressionGroup", e.pos, "")
         ELSE IF e.st # "ok" THEN e
         ELSE GroupParse(s, SkipWs(s, e.pos), branches, Append(cur, e.v))

RECURSIVE FirstInvalid(_, _, _)
\* validate: the first branch, in the order of the loops, that is not valid
FirstInvalid(exprs, i, j) ==
    IF exprs[i].op # "Group" \/ j > Len(exprs[i].g) THEN FirstInvalid(exprs, i + 1, 1)
    ELSE IF ~Validate(exprs[i].g[j]) THEN exprs[i].g[j]
    ELSE FirstInvalid(exprs, i, j + 1)

RECURSIVE ValidateError(_)
\* validate: the Error of a list that is not valid
ValidateError(exprs) ==
    IF exprs = <<>> THEN "EmptyProgram"
    ELSE IF \E i \in 1..Len(exprs) :
               exprs[i].op = "Group" /\ \E j \in 1..Len(exprs[i].g) : ~Validate(exprs[i].g[j])
    THEN ValidateError(FirstInvalid(exprs, 1, 1))
    ELSE "MissingAction"

\* try_parse: where the iterator restarts after Addr::parse said NotAnAddress
ResetItKept(pos) == pos

ResetIt(pos) == 0

\* Program::try_parse up to the loop over the expressions
TryParseAddr ==
    /\ phase = "parse"
    /\ \E a \in {AddrParse(Trim(input), 0)} :
          IF Trim(input) = <<>>
          THEN /\ parsed' = ErrParse("EmptyProgram", "")
               /\ phase' = "parsed"
               /\ UNCHANGED <<prog, it>>
          ELSE IF a.st = "ok"
          THEN /\ prog' = Program(a.v, <<>>)
               /\ it' = SkipWs(Trim(input), a.pos)
               /\ phase' = "exprs"
               /\ parsed' = parsed
          ELSE IF a.st = "NotAnAddress"
          THEN /\ prog' = Program(Full, <<>>)
               /\ it' = SkipWs(Trim(input), ResetIt(a.pos))
               /\ phase' = "exprs"
               /\ parsed' = parsed
          ELSE /\ parsed' = ErrParse(a.st, IF a.st = "UnclosedDelimiter" THEN "/" ELSE a.ch)
               /\ phase' = "parsed"
               /\ UNCHANGED <<prog, it>>
    /\ UNCHANGED <<txt, current_dot, oc, fname, input, out, stack, ret, result, orig, log, mode, keys, last>>

\* try_parse: one expression is parsed and pushed
TryParseExpr ==
    /\ phase = "exprs"
    /\ it < Len(Trim(input))
    /\ \E e \in {ExprParse(Trim(input), it)} :
          /\ e.st # "Eof"
          /\ IF e.st = "ok"
             THEN /\ prog' = Program(prog.initial_dot, Append(prog.exprs, e.v))
                  /\ it' = SkipWs(Trim(input), e.pos)
                  /\ UNCHANGED <<parsed, phase>>
             ELSE /\ parsed' = ErrParse(e.st, e.ch)
                  /\ phase' = "parsed"
                  /\ UNCHANGED <<prog, it>>
    /\ UNCHANGED <<txt, current_dot, oc, fname, input, out, stack, ret, result, orig, log, mode, keys, last>>

\* try_parse: the loop ends, the expressions are validated
TryParseFinish ==
    /\ phase = "exprs"
    /\ it >= Len(Trim(input)) \/ ExprParse(Trim(input), it).st = "Eof"
    /\ parsed' = IF prog.exprs = <<>> \/ Validate(prog.exprs) THEN OkParse
                 ELSE ErrParse(ValidateError(prog.exprs), "")
    /\ phase' = "parsed"
    /\ UNCHANGED <<txt, current_dot, oc, fname, input, it, prog, out, stack, ret, result, orig, log, mode, keys, last>>

(***************************************************************************)
(* The inputs: texts, regexes, templates, programs accepted by try_parse.  *)
(***************************************************************************)
Chars == {"a", "b"}

Texts == UNION {[1..n -> Chars] : n \in 0..MaxLen}

RLit == Re("lit", "a", "")
RPlus == Re("plus", "a", "")
RStar == Re("star", "a", "")
RAlt == Re("alt", "a", "b")
REdge == Re("edge", "a", "")

Regexes == {RLit, RPlus, RStar, RAlt}

\* X, $0, $1X, $2$1
Templates == {<<"X">>, <<"$", "0">>, <<"$", "1", "X">>, <<"$", "2", "$", "1">>}

ActionExprs ==
    {PrintE(t) : t \in Templates} \cup {Insert(t) : t \in Templates}
    \cup {AppendE(t) : t \in Templates} \cup {Change(t) : t \in Templates}
    \cup {Sub(re, t) : re \in {RLit, RAlt}, t \in {<<"X">>, <<"$", "1", "X">>}}
    \cup {Delete}

LoopExprs ==
    {LoopMatches(re) : re \in Regexes}
    \cup {LoopBetweenMatches(re) : re \in {RLit, RPlus, RStar}}
    \cup {LoopMatches(REdge)}
    \cup {IfContains(RLit), IfNotContains(RLit)}

GroupExprs ==
    {Group(<< <<Insert(<<"X">>)>>, <<Delete>> >>),
     Group(<< <<AppendE(<<"X">>)>>, <<LoopMatches(RLit), Change(<<"$", "1", "X">>)>> >>),
     Group(<< <<Change(<<"$", "1", "X">>)>>, <<Delete>> >>),
     Group(<< <<PrintE(<<"$", "0">>)>> >>)}

ExprLists ==
    {<<>>}
    \cup {<<a>> : a \in ActionExprs \cup GroupExprs}
    \cup {<<l, a>> : l \in LoopExprs, a \in ActionExprs}
    \cup {<<LoopMatches(re), Insert(<<"X", "X">>)>> : re \in Regexes}
    \cup {<<LoopMatches(RLit), g>> : g \in GroupExprs}
    \cup {<<LoopMatches(RPlus), l, a>> :
             l \in {LoopMatches(RLit), LoopBetweenMatches(RLit), IfContains(RLit)},
             a \in {Insert(<<"X">>), Delete, Change(<<"$", "0", "X">>)}}
    \* lists that validate rejects
    \cup {<<l>> : l \in {LoopMatches(RLit), IfContains(RLit)}}
    \cup {<<Group(<< <<IfNotContains(RLit)>> >>)>>}

\* the initial addresses `,`  `.`  `#1`  `$` and the dot of the buffer
InitialDots ==
    {<<Full, DefaultDot>>,
     <<Simple(SimpleAddr(Current, <<>>)), FromCharIndices(1, 2)>>,
     <<Simple(SimpleAddr(Char(1), <<>>)), DefaultDot>>,
     <<Simple(SimpleAddr(Eof, <<>>)), DefaultDot>>}

Init ==
    /\ txt \in Texts
    /\ orig = txt
    /\ \E d \in InitialDots, exprs \in ExprLists :
          /\ exprs = <<>> \/ Validate(exprs)
          /\ prog = Program(d[1], exprs)
          /\ current_dot = d[2]
    /\ oc = TRUE
    /\ fname = FName
    /\ input = <<>>
    /\ it = 0
    /\ parsed = NoParse
    /\ out = <<>>
    /\ stack = <<>>
    /\ ret = NoRet
    /\ phase = "init"
    /\ result = NoRet
    /\ log = <<>>
    /\ NoKeys

Next ==
    \/ Execute
    \/ ExecuteReturn
    \/ ExecuteError
    \/ PropagateError
    \/ StepPrint
    \/ StepInsert
    \/ StepAppend
    \/ StepChange
    \/ StepDelete
    \/ StepSub
    \/ StepIfContains
    \/ StepIfNotContains
    \/ StepGroup
    \/ GroupReturn
    \/ StepLoopMatches
    \/ LoopMatchesIter
    \/ StepLoopBetweenMatches
    \/ LoopBetweenMatchesIter
    \/ ApplyNext
    \/ ApplyReturn

Spec == Init /\ [][Next]_vars

\* execute runs to its return: no step of it is postponed forever
FairSpec == Spec /\ WF_vars(Next)

(***************************************************************************)
(* Address evaluation alone: execute with an empty expression list returns *)
(* map_addr(initial_dot).                                                  *)
(***************************************************************************)
AddrTexts == UNION {[1..n -> {"a", NL}] : n \in 0..MaxLen}

AddrBases ==
    {Current, CurrentLine, Bol, Eol, Bof, Eof, Line(0), Line(1), Line(2),
     RelativeLine(-1), RelativeLine(1), Char(0), Char(2), Char(5),
     RelativeChar(-2), RelativeChar(1), LineAndColumn(0, 1), LineAndColumn(1, 0),
     LineAndColumn(1, UsizeMax), Regex(RLit), Regex(RStar), RegexBack(RLit)}

Suffixes == {ab \in AddrBases : IsValidSuffix(ab)}

SimpleAddrs ==
    {SimpleAddr(b, <<>>) : b \in AddrBases}
    \cup {SimpleAddr(b, <<x>>) : b \in AddrBases, x \in Suffixes}
    \cup {SimpleAddr(Char(2), <<x, y>>) : x \in Suffixes, y \in Suffixes}

Addrs ==
    {Explicit(d) : d \in {DefaultDot, FromCharIndices(1, 2), FromCharIndices(2, 9)}}
    \cup {Simple(a) : a \in SimpleAddrs}
    \cup {Compound(SimpleAddr(a, <<>>), SimpleAddr(b, <<>>)) : a \in AddrBases, b \in AddrBases}

CurrentDots == {DefaultDot, FromCharIndices(1, 2), FromCursors(0, 3, TRUE)}

InitAddr ==
    /\ txt \in AddrTexts
    /\ orig = txt
    /\ current_dot \in CurrentDots
    /\ oc \in BOOLEAN
    /\ fname = FName
    /\ input = <<>>
    /\ it = 0
    /\ parsed = NoParse
    /\ \E a \in Addrs : prog = Program(a, <<>>)
    /\ out = <<>>
    /\ stack = <<>>
    /\ ret = NoRet
    /\ phase = "init"
    /\ result = NoRet
    /\ log = <<>>
    /\ NoKeys

NextAddr == Execute

SpecAddr == InitAddr /\ [][NextAddr]_vars

(***************************************************************************)
(* Template expansion alone: step is called on a Print expression with a   *)
(* match of the text, as apply_matches calls it, under any file name.      *)
(***************************************************************************)
TemplateTexts == UNION {[1..n -> {"a", "$", "1"}] : n \in 0..MaxLen}

PrintTemplates ==
    {FNAME_VAR,
     FNAME_VAR \o <<"$", "0">>,
     FNAME_VAR \o <<"\\", "t">>,
     <<"$", "0">>,
     <<"$", "0", "$", "1">>,
     <<"\\", "n", "$", "0">>,
     <<"a", "$", "1">>}

FileNames == {FName, <<"$", "0">>, <<"$", "1">>, <<"\\", "n">>}

\* the matches a regex can report in t, with or without a first submatch
MatchesOf(t) ==
    {MkMatch(from, to, s1) : from \in 0..Len(t), to \in 0..Len(t), s1 \in BOOLEAN}

InitTemplate ==
    /\ txt \in TemplateTexts
    /\ orig = txt
    /\ current_dot = DefaultDot
    /\ oc = TRUE
    /\ fname \in FileNames
    /\ input = <<>>
    /\ it = 0
    /\ parsed = NoParse
    /\ \E tpl \in PrintTemplates, m \in {x \in MatchesOf(txt) : x.from <= x.to} :
          /\ prog = Program(Full, <<PrintE(tpl)>>)
          /\ stack = <<Frame("step", prog.exprs, 0, m)>>
    /\ out = <<>>
    /\ ret = NoRet
    /\ phase = "run"
    /\ result = NoRet
    /\ log = <<Ev("begin", 0, 0)>>
    /\ NoKeys

NextTemplate == StepPrint

SpecTemplate == InitTemplate /\ [][NextTemplate]_vars

(***************************************************************************)
(* Program::try_parse alone, over the texts of programs.                   *)
(***************************************************************************)
\* the address a program text starts with, well formed or not
AddrTextsOfPrograms ==
    {<<>>,
     <<",">>,
     <<".">>,
     <<"5">>,
     <<"5", ",", "9">>,
     <<"0", ",", "$">>,
     <<"-">>,
     <<"#">>,
     <<"#", ",", "5">>,
     <<"+", "-">>,
     <<"/", "a", "/">>,
     <<"/", "a">>,
     <<"/", "(", "/">>,
     <<"3", ":">>,
     <<"3", ":", "x">>,
     <<"3", ":", "9">>,
     <<"5", "+", ".">>,
     <<"-", "/", "a", "/", "+", "#", "1">>,
     <<"5", "+", "/", "(", "/">>,
     <<",", "/", "b">>}

\* the expressions of a program text, well formed or not
ExprTextsOfPrograms ==
    {<<>>,
     <<"d">>,
     <<"x", "/", "a", "/", " ", "d">>,
     <<"x", "/", "a", "/">>,
     <<"y", "/", "a", "/", " ", "c", "/", "X", "/">>,
     <<"g", "/", "a", "/">>,
     <<"v", "/", "b", "/", " ", "p", "/", "$", "0", "/">>,
     <<"s", "/", "a", "/", "X", "/">>,
     <<"s", "/", "a", "/", "X">>,
     <<"x">>,
     <<"q">>,
     <<"x", "/", "(", "/", " ", "d">>,
     <<"x", "/", "a", "/", " ", "{", "g", "/", "b", "/", " ", "d", ";", " ", "v", "/", "b", "/", "}">>,
     <<"{", "d", ";", " ", "x", "/", "a", "+", "/", " ", "{", "i", "/", "X", "/", "}", "}">>,
     <<"{", "x", "/", "a", "*", "/", " ", "{", "y", "/", "b", "/", " ", "a", "/", "X", "/", ";", " ", "y", "/", "b", "/", "}", "}">>,
     <<"{", "}">>,
     <<"{", "d", ";", "}">>,
     <<"{", "d">>,
     <<"x", "/", "a", "/", " ", "{", "d", "}", " ", "g", "/", "(", "a", ")", "|", "b", "/">>,
     <<"i", "/", "X", "/", " ", "d", " ", "x", "/", "b", "/">>,
     <<"-", "d">>}

\* the whitespace around the parts of a program text
Separators ==
    {<<>>,
     <<" ">>,
     <<NL, " ">>}

ProgramTexts ==
    {w1 \o a \o w2 \o e \o w1 :
        w1 \in Separators, a \in AddrTextsOfPrograms, w2 \in Separators, e \in ExprTextsOfPrograms}

InitParse ==
    /\ input \in ProgramTexts
    /\ it = 0
    /\ parsed = NoParse
    /\ prog = Program(Full, <<>>)
    /\ phase = "parse"
    /\ txt = <<>>
    /\ orig = <<>>
    /\ current_dot = DefaultDot
    /\ oc = TRUE
    /\ fname = FName
    /\ out = <<>>
    /\ stack = <<>>
    /\ ret = NoRet
    /\ result = NoRet
    /\ log = <<>>
    /\ NoKeys

NextParse == TryParseAddr \/ TryParseExpr \/ TryParseFinish

SpecParse == InitParse /\ [][NextParse]_vars

(***************************************************************************)
(* Key handling alone: keys arrive one at a time and Mode::handle_keys is  *)
(* called on the pending list.                                             *)
(***************************************************************************)
Inputs == {"a", "b", "c"}

\* a keymap as the keymap! macro builds it
Keymap ==
    [k \in {<<"a">>, <<"b", "a">>, <<"b", "b">>} |->
        IF k = <<"a">> THEN 1 ELSE IF k = <<"b", "a">> THEN 2 ELSE 3]

Modes ==
    {EphemeralMode(<<"e">>)}
    \cup {Mode(<<"m">>, km, h) : km \in {Keymap, EmptyKeymap}, h \in {"missing", "single", "pair"}}

\* execute is not running
NoExecute ==
    /\ txt = <<>>
    /\ orig = <<>>
    /\ current_dot = DefaultDot
    /\ oc = TRUE
    /\ fname = FName
    /\ input = <<>>
    /\ it = 0
    /\ parsed = NoParse
    /\ prog = Program(Full, <<>>)
    /\ out = <<>>
    /\ stack = <<>>
    /\ ret = NoRet
    /\ phase = "done"
    /\ result = NoRet
    /\ log = <<>>

\* the caller adds an Input to the list it hands to handle_keys
PushKey ==
    /\ Len(keys) < MaxKeys
    /\ \E k \in Inputs : keys' = Append(keys, k)
    /\ last' = NoCall
    /\ UNCHANGED <<txt, current_dot, oc, fname, input, it, parsed, prog, out, stack, ret, phase, result, orig, log, mode>>

\* Mode::handle_keys
HandleKeys ==
    /\ \E get \in {Get(mode.keymap, keys)}, res \in {HandleExpiredPending(mode.handle_expired_pending, keys)} :
          IF get.kind = "Val"
          THEN /\ keys' = Clear(keys)
               /\ last' = Called(get, Missing, Some(get.v))
          ELSE IF get.kind = "Partial"
          THEN /\ keys' = keys
               /\ last' = Called(get, Missing, None)
          ELSE IF res.kind = "Val"
          THEN /\ keys' = Clear(keys)
               /\ last' = Called(get, res, Some(res.v))
          ELSE IF res.kind = "Missing"
          THEN /\ keys' = Clear(keys)
               /\ last' = Called(get, res, None)
          ELSE /\ keys' = keys
               /\ last' = Called(get, res, None)
    /\ UNCHANGED <<txt, current_dot, oc, fname, input, it, parsed, prog, out, stack, ret, phase, result, orig, log, mode>>

InitMode ==
    /\ NoExecute
    /\ mode \in Modes
    /\ keys = <<>>
    /\ last = NoCall

NextMode == PushKey \/ HandleKeys

SpecMode == InitMode /\ [][NextMode]_vars

(***************************************************************************)
(* Properties                                                              *)
(***************************************************************************)
Done == phase = "done"

\* the events of the log of the given kinds, in order
EventsOf(kinds) == SelectSeq(log, LAMBDA e : e.ev \in kinds)

\* C1: every execute with a non-empty expression list calls
\* begin_edit_transaction exactly once and end_edit_transaction exactly once,
\* begin before and end after every insert/remove, on every exit path of
\* execute, the error return included.
C1_TransactionPaired ==
    (Done /\ prog.exprs # <<>> /\ result.st \in {"ok", "err"}) =>
        /\ Len(log) >= 2
        /\ log[1].ev = "begin"
        /\ log[Len(log)].ev = "end"
        /\ Len(EventsOf({"begin"})) = 1
        /\ Len(EventsOf({"end"})) = 1

\* C2: the branches of a Group run in order, the first on the match the
\* Group was given and each later one on the dot the branch before it
\* returned.
C2_GroupBranchesChainDots ==
    \A i \in 2..Len(stack) :
        (/\ stack[i - 1].kind = "group"
         /\ stack[i - 1].k >= 2
         /\ stack[i].kind = "step"
         /\ stack[i].pc = 0) =>
            /\ stack[i].m.from = stack[i - 1].dot.from
            /\ stack[i].m.to = stack[i - 1].dot.to

\* the frame of apply_matches of an x loop at position i of the stack, with
\* the invocation of the body it has just started above it
BodyStarted(i) ==
    /\ i + 1 = Len(stack)
    /\ stack[i].kind = "apply"
    /\ stack[i].exprs[stack[i].pc + 1].op = "LoopMatches"
    /\ stack[i + 1].kind = "step"
    /\ stack[i + 1].pc = stack[i].pc + 1

\* C3: x/re/ runs its body once per match collected before the first
\* invocation, in increasing order of position; the k-th invocation gets the
\* k-th match shifted by the net change of the length of the buffer made by
\* invocations 1..k-1, and that range holds the characters it held when the
\* matches were collected.
C3_ShiftedMatches ==
    \A i \in 1..Len(stack) - 1 :
        BodyStarted(i) =>
            LET f == stack[i]
                mk == f.matches[f.k]
                cur == stack[i + 1].m
            IN  /\ \A j \in 1..Len(f.matches) - 1 : f.matches[j].to <= f.matches[j + 1].from
                /\ cur.from = mk.from + (Len(txt) - Len(f.txt0))
                /\ cur.to = mk.to + (Len(txt) - Len(f.txt0))
                /\ Between(txt, cur.from, cur.to) = Between(f.txt0, mk.from, mk.to)

C3_Witness ==
    \E i \in 1..Len(stack) - 1 :
        /\ BodyStarted(i)
        /\ stack[i].k = 3
        /\ Len(txt) > Len(stack[i].txt0) + 1
        /\ stack[i + 1].m.to > stack[i + 1].m.from

\* the start indices of the disjoint non-empty matches of re in t, read off
\* the text: every c for c, the first c of every run of c for c+, every c or
\* d for (c)|d
MatchStarts(re, t) ==
    {p \in 0..Len(t) - 1 :
        IF re.kind = "lit" THEN t[p + 1] = re.c
        ELSE IF re.kind = "plus" THEN t[p + 1] = re.c /\ (p = 0 \/ t[p] # re.c)
        ELSE t[p + 1] \in {re.c, re.d}}

RECURSIVE WithBefore(_, _, _, _)
\* t from its i-th character on, with x put before every index of starts
WithBefore(t, starts, x, i) ==
    IF i > Len(t) THEN <<>>
    ELSE (IF (i - 1) \in starts THEN x ELSE <<>>) \o <<t[i]>> \o WithBefore(t, starts, x, i + 1)

\* C4: after `, x/re/ i/X/`, where re has N disjoint non-empty matches and
\* X has no variables, the buffer is the original text with X inserted
\* before each of the N matches and its length is orig_len + N * |X|.
C4_InsertBeforeEachMatch ==
    \A re \in {RLit, RPlus, RAlt}, x \in {<<"X">>, <<"X", "X">>} :
        (Done /\ prog = Program(Full, <<LoopMatches(re), Insert(x)>>)) =>
            /\ result.st = "ok"
            /\ txt = WithBefore(orig, MatchStarts(re, orig), x, 1)
            /\ Len(txt) = Len(orig) + Cardinality(MatchStarts(re, orig)) * Len(x)

C4_Witness ==
    /\ Done
    /\ prog = Program(Full, <<LoopMatches(RLit), Insert(<<"X", "X">>)>>)
    /\ orig = <<"a", "b", "a">>
    /\ txt = <<"X", "X", "a", "b", "X", "X", "a">>

\* an activation that collects, or has collected, the matches of an x loop
CollectsX(f) ==
    /\ f.kind \in {"collect_x", "apply"}
    /\ f.exprs[f.pc + 1].op = "LoopMatches"

\* C5: the collection of the matches of x/re/ terminates for every regex,
\* one that matches the empty string everywhere included: every iteration
\* of the loop moves the search start `from` strictly forward, and at most
\* (to - from + 1) matches are collected.
C5_XCollectionTerminates ==
    /\ [](\A i \in 1..Len(stack) :
             CollectsX(stack[i]) =>
                 Len(stack[i].matches) <= stack[i].m.to - stack[i].m.from + 1)
    /\ [][(AtLoop("collect_x") /\ MatchesIter(TopExpr.re, txt, Top.from, Top.m.to)) =>
             stack'[Len(stack)].from > Top.from]_vars
    /\ (AtLoop("collect_x") ~> ~AtLoop("collect_x"))

C5_Witness ==
    /\ AtLoop("apply")
    /\ TopExpr = LoopMatches(RStar)
    /\ Len(Top.matches) = 3
    /\ \E j \in 1..3 : Top.matches[j].from = Top.matches[j].to
    /\ Top.matches[3].from = 2

\* C6: for every Addr, text and current dot map_addr returns a Dot with
\* 0 <= from <= to <= len_chars; it never fails.
C6_MapAddrInBounds ==
    Done =>
        /\ result.st = "ok"
        /\ 0 <= result.dot.from
        /\ result.dot.from <= result.dot.to
        /\ result.dot.to <= LenChars(txt)

\* C7: when execute returns Ok(dot), from <= to and both indices lie in
\* [0, len_chars] of the buffer as the program left it.
C7_ReturnedDotInBounds ==
    (Done /\ result.st = "ok") =>
        /\ 0 <= result.dot.from
        /\ result.dot.from <= result.dot.to
        /\ result.dot.to <= LenChars(txt)

C7_Witness ==
    /\ Done
    /\ result.st = "ok"
    /\ prog = Program(Full, <<LoopMatches(RLit), Delete>>)
    /\ orig = <<"a", "b", "a">>
    /\ txt = <<"b">>
    /\ result.dot.to = 1

\* the indices the initial addresses `,`  `.`  `#1`  `$` denote in a text of
\* n characters, the current dot being cd
ResolvedIndices(a, cd, n) ==
    IF a = Full THEN <<0, n>>
    ELSE IF a.a.base.kind = "Current" THEN <<Min(cd.from, n), Min(cd.to, n)>>
    ELSE IF a.a.base.kind = "Char" THEN <<Min(a.a.base.n, n), Min(a.a.base.n, n)>>
    ELSE <<n, n>>

\* C8: with an empty expression list execute returns the resolved initial
\* dot and issues no insert, no remove and no output: the text is unchanged.
C8_EmptyProgramIsPure ==
    (Done /\ prog.exprs = <<>>) =>
        /\ result.st = "ok"
        /\ <<result.dot.from, result.dot.to>>
              = ResolvedIndices(prog.initial_dot, current_dot, Len(orig))
        /\ txt = orig
        /\ log = <<>>
        /\ out = <<>>

C8_Witness ==
    /\ Done
    /\ prog = Program(Simple(SimpleAddr(Char(1), <<>>)), <<>>)
    /\ txt = <<"a", "b">>
    /\ result = OkRet(FromCharIndices(1, 1))

\* the number of characters of t before its first "b"
LeadingAs(t) == Cardinality({p \in 1..Len(t) : \A q \in 1..p : t[q] = "a"})

RECURSIVE Repeat(_, _)
\* n copies of the string unit
Repeat(unit, n) == IF n = 0 THEN <<>> ELSE unit \o Repeat(unit, n - 1)

\* what one iteration of the body does to a match "a" of (a)|b with the
\* template $1X: the text that replaces the "a" and the calls of the editor
EditedA(op) ==
    IF op = "Change" THEN [s |-> <<"a", "X">>, calls |-> 2]
    ELSE IF op = "Insert" THEN [s |-> <<"a", "X", "a">>, calls |-> 1]
    ELSE [s |-> <<"a", "a", "X">>, calls |-> 1]

\* C9: when step fails in the k-th iteration of a loop body (x/(a)|b/ with
\* a template that uses $1, the k-th match being the first "b"), execute
\* returns that error, the edits of iterations 1..k-1 stay in the buffer and
\* no insert or remove is issued for iteration k or a later one.
C9_FailureKeepsEarlierEdits ==
    \A body \in {Change(<<"$", "1", "X">>), Insert(<<"$", "1", "X">>), AppendE(<<"$", "1", "X">>)} :
        (/\ Done
         /\ prog = Program(Full, <<LoopMatches(RAlt), body>>)
         /\ LeadingAs(orig) < Len(orig)) =>
            LET k == LeadingAs(orig) + 1 IN
            /\ result = ErrRet(1)
            /\ txt = Repeat(EditedA(body.op).s, k - 1) \o SubSeq(orig, k, Len(orig))
            /\ Len(EventsOf({"insert", "remove"})) = (k - 1) * EditedA(body.op).calls
            /\ out = <<>>

C9_Witness ==
    /\ Done
    /\ prog = Program(Full, <<LoopMatches(RAlt), Change(<<"$", "1", "X">>)>>)
    /\ orig = <<"a", "a", "b">>
    /\ txt = <<"a", "X", "a", "X", "b">>
    /\ result = ErrRet(1)

\* step is at an action that expands a template
AtTemplateStep ==
    \E op \in {"Print", "Insert", "Append", "Change", "Sub"} : AtStep(op)

\* the match the template of the action is expanded with
TemplateSubject ==
    IF TopExpr.op = "Sub" THEN MatchIter(TopExpr.re, txt, Top.m.from, Top.m.to) ELSE Top.m

\* the n of the variables $n of tpl for which m has no submatch
MissingVars(tpl, m) ==
    {n \in 0..9 : Contains(tpl, <<"$", Digits[n + 1]>>) /\ SubLoc(m, n)[1] = Absent}

\* C10: when the template of an action has a $n for which the match has no
\* submatch, the expansion returns InvalidSubstitution(n) for the smallest
\* such n, and the step issues no insert, no remove and no output.
C10_InvalidSubstitution ==
    [][(/\ AtTemplateStep
        /\ TemplateSubject.found
        /\ MissingVars(TopExpr.tpl, TemplateSubject) # {}) =>
            /\ ret'.st = "err"
            /\ ret'.err \in MissingVars(TopExpr.tpl, TemplateSubject)
            /\ \A n \in MissingVars(TopExpr.tpl, TemplateSubject) : ret'.err <= n
            /\ txt' = txt
            /\ out' = out
            /\ log' = log]_vars

C10_Witness ==
    /\ phase = "run"
    /\ ret = ErrRet(1)
    /\ stack # <<>>
    /\ Top.kind = "apply"
    /\ Top.exprs[Top.pc + 1] = LoopMatches(RAlt)
    /\ Top.exprs[Top.pc + 2] = Change(<<"$", "2", "$", "1">>)
    /\ Top.k = 1
    /\ txt = orig
    /\ log = <<Ev("begin", 0, 0)>>

\* the string pat stands in s at index i
StandsAt(s, i, pat) ==
    /\ i + Len(pat) - 1 <= Len(s)
    /\ SubSeq(s, i, i + Len(pat) - 1) = pat

\* the digit n that the character ch writes
DigitOf(ch) == CHOOSE n \in 0..9 : Digits[n + 1] = ch

RECURSIVE ExpandedOnce(_, _, _, _, _)
\* the template s from its i-th character on, each token of the template
\* itself replaced once and nothing that a replacement brought in read again
ExpandedOnce(s, i, m, t, fn) ==
    IF i > Len(s) THEN <<>>
    ELSE IF StandsAt(s, i, FNAME_VAR)
    THEN fn \o ExpandedOnce(s, i + Len(FNAME_VAR), m, t, fn)
    ELSE IF StandsAt(s, i, <<"\\", "n">>)
    THEN <<NL>> \o ExpandedOnce(s, i + 2, m, t, fn)
    ELSE IF StandsAt(s, i, <<"\\", "t">>)
    THEN <<TAB>> \o ExpandedOnce(s, i + 2, m, t, fn)
    ELSE IF s[i] = "$" /\ i < Len(s) /\ s[i + 1] \in {Digits[k] : k \in 1..10}
    THEN Submatch(t, m, DigitOf(s[i + 1])) \o ExpandedOnce(s, i + 2, m, t, fn)
    ELSE <<s[i]>> \o ExpandedOnce(s, i + 1, m, t, fn)

\* C11: template substitution is not iterative: what a Print step writes is
\* the template with each of its own tokens ($FILENAME, \n, \t, $n) replaced
\* once; a token that stands only in the text a replacement brought in (the
\* file name, the content of a submatch) is written as it is.
C11_SubstitutionNotIterative ==
    [][(AtStep("Print") /\ ret'.st = "ok") =>
          out' = out \o ExpandedOnce(TopExpr.tpl, 1, Top.m, txt, fname)]_vars

\* the expressions that select and do not act: x, y, g, v
Selects(e) == e.op \in {"LoopMatches", "LoopBetweenMatches", "IfContains", "IfNotContains"}

RECURSIVE EndsInAction(_)
\* a list that is not empty, does not end in a selection, and whose groups
\* have only such lists as branches
EndsInAction(exprs) ==
    /\ exprs # <<>>
    /\ ~Selects(exprs[Len(exprs)])
    /\ \A i \in 1..Len(exprs) :
          exprs[i].op = "Group" =>
              /\ exprs[i].g # <<>>
              /\ \A j \in 1..Len(exprs[i].g) : EndsInAction(exprs[i].g[j])

\* try_parse has read the whole text
ReadToTheEnd == phase = "parsed" /\ it >= Len(Trim(input))

\* C12: a Program that try_parse returns Ok has no expressions or ends in an
\* action, and so does, never empty, every branch of every Group in it; a
\* list that was read to the end and ends in x, y, g or v is rejected with
\* MissingAction.
C12_ProgramsEndInAction ==
    /\ parsed = OkParse => (prog.exprs = <<>> \/ EndsInAction(prog.exprs))
    /\ (ReadToTheEnd /\ prog.exprs # <<>> /\ Selects(prog.exprs[Len(prog.exprs)]))
          => parsed = ErrParse("MissingAction", "")

\* `{d; x/a+/ {i/X/}}` is accepted: a group in a branch of a group
C12_Witness ==
    /\ parsed = OkParse
    /\ Len(prog.exprs) = 1
    /\ prog.exprs[1].op = "Group"
    /\ Len(prog.exprs[1].g) = 2
    /\ prog.exprs[1].g[2][2].op = "Group"

\* the first characters of the expressions Expr::try_parse knows
CommandChars == {"x", "y", "g", "v", "p", "i", "a", "c", "s", "d", "{"}

\* the Error of try_parse for a ParseError of Addr::parse
EngineError(a) == ErrParse(a.st, IF a.st = "UnclosedDelimiter" THEN "/" ELSE a.ch)

\* the step of try_parse that follows Addr::parse, by the result a of Addr::parse
AfterAddrParse(a) ==
    /\ a.st = "NotAnAddress" =>
          /\ prog' = Program(Full, <<>>)
          /\ it' = 0
          /\ phase' = "exprs"
          /\ parsed' = NoParse
    /\ a.st \in {"InvalidRegex", "UnclosedDelimiter", "UnexpectedCharacter", "InvalidSuffix"} =>
          /\ parsed' = EngineError(a)
          /\ phase' = "parsed"
          /\ prog' = prog

\* C13: when Addr::parse fails with NotAnAddress, initial_dot is Addr::full()
\* and the expressions are parsed from the first character of the trimmed
\* input, so that a text whose first character starts no expression fails on
\* that very character; any other error of Addr::parse ends try_parse with
\* the engine error of the same name and no Program.
C13_NotAnAddressRestarts ==
    /\ [][(phase = "parse" /\ Trim(input) # <<>>) => AfterAddrParse(AddrParse(Trim(input), 0))]_vars
    /\ [](phase = "parsed" /\ Trim(input) # <<>>
            /\ AddrParse(Trim(input), 0).st = "NotAnAddress"
            /\ Peek(Trim(input), 0) \notin CommandChars
          => parsed = ErrParse("UnexpectedCharacter", Peek(Trim(input), 0)))

\* Addr::parse has consumed characters, said NotAnAddress, and the iterator
\* is back at the start
C13_Witness ==
    /\ phase = "exprs"
    /\ it = 0
    /\ prog = Program(Full, <<>>)
    /\ AddrParse(Trim(input), 0).st = "NotAnAddress"
    /\ AddrParse(Trim(input), 0).pos > 1

\* the characters a regex of the model matches
MatchChars(re) == IF re.kind = "alt" THEN {re.c, re.d} ELSE {re.c}

\* the characters of t that a match of re covers, in the order of the text
Matched(re, t) == SelectSeq(t, LAMBDA ch : ch \in MatchChars(re))

\* the characters of t that no match of re covers, in the order of the text
Unmatched(re, t) == SelectSeq(t, LAMBDA ch : ch \notin MatchChars(re))

RECURSIVE Expansions(_, _, _)
\* the expansions of tpl over the first n of the matches, one after another
Expansions(tpl, matches, n) ==
    IF n = 0 THEN <<>>
    ELSE Expansions(tpl, matches, n - 1) \o ExpandedOnce(tpl, 1, matches[n], txt, fname)

\* the program is a loop over a Print, and its loop runs
PrintLoopRuns ==
    /\ phase = "run"
    /\ Len(prog.exprs) = 2
    /\ prog.exprs[1].op \in {"LoopMatches", "LoopBetweenMatches"}
    /\ prog.exprs[2].op = "Print"
    /\ stack # <<>>
    /\ stack[1].kind = "apply"

\* the invocations of the body of the running loop that have written
PrintsDone ==
    IF Len(stack) = 2 \/ ret.st = "err" THEN stack[1].k - 1 ELSE stack[1].k

\* C14: the output is the expanded Print templates one after another in the
\* order of execution: only a Print step writes, it appends to what was
\* written and leaves the buffer as it was; while `x/re/ p/tpl/` or
\* `y/re/ p/tpl/` runs, the output is one expansion for each collected match
\* or gap handled so far, the matches being in increasing order of position;
\* so `, x/re/ p/$0/` writes the matched characters and `, y/re/ p/$0/` the
\* others, both in the order of the text.
C14_PrintsInExecutionOrder ==
    /\ [][/\ out' # out => AtStep("Print")
          /\ AtStep("Print") =>
                /\ txt' = txt
                /\ Len(out') >= Len(out)
                /\ SubSeq(out', 1, Len(out)) = out]_vars
    /\ [](PrintLoopRuns =>
            /\ \A j \in 1..Len(stack[1].matches) - 1 :
                  stack[1].matches[j].to <= stack[1].matches[j + 1].from
            /\ out = Expansions(prog.exprs[2].tpl, stack[1].matches, PrintsDone))
    /\ [](\A re \in Regexes :
            /\ (Done /\ prog = Program(Full, <<LoopMatches(re), PrintE(<<"$", "0">>)>>))
                  => out = Matched(re, orig)
            /\ (Done /\ prog = Program(Full, <<LoopBetweenMatches(re), PrintE(<<"$", "0">>)>>))
                  => out = Unmatched(re, orig))

\* `, x/(a)|b/ p/$0/` on the text aba: the three matches were written in
\* the order of the text
C14_Witness ==
    /\ Done
    /\ prog = Program(Full, <<LoopMatches(RAlt), PrintE(<<"$", "0">>)>>)
    /\ orig = <<"a", "b", "a">>
    /\ out = <<"a", "b", "a">>

\* re (of a kind that matches no empty string) matches somewhere in the
\* characters [from, to) of the text
MatchesWithin(re, from, to) ==
    \E i \in from..to - 1 : i < Len(txt) /\ txt[i + 1] \in MatchChars(re)

\* the step of a guard: it runs the next expression on the match it was given
RunsNext ==
    /\ stack' = ReplaceTop(Frame("step", Top.exprs, Top.pc + 1, Top.m))
    /\ ret' = NoRet

\* the step of a guard: it returns the range of its match and does no more
ReturnsItsMatch ==
    /\ stack' = Pop
    /\ ret'.st = "ok"
    /\ ret'.dot.from = Top.m.from
    /\ ret'.dot.to = Top.m.to

\* C15: on a match m, g/re/ runs the next expression iff re matches
\* somewhere in [m.from, m.to) and v/re/ iff it does not, so exactly one of
\* the two runs it; the one that does not returns the range m.from, m.to;
\* neither guard itself inserts, removes or writes.
C15_GuardsAreComplementary ==
    [][/\ AtStep("IfContains") =>
             IF MatchesWithin(TopExpr.re, Top.m.from, Top.m.to) THEN RunsNext ELSE ReturnsItsMatch
       /\ AtStep("IfNotContains") =>
             IF MatchesWithin(TopExpr.re, Top.m.from, Top.m.to) THEN ReturnsItsMatch ELSE RunsNext
       /\ (AtStep("IfContains") \/ AtStep("IfNotContains")) =>
             /\ txt' = txt
             /\ out' = out
             /\ log' = log]_vars

\* `. g/a/ d` with dot on bb of abb: the text has an a, the range has none,
\* and nothing was deleted
C15_Witness ==
    /\ Done
    /\ prog = Program(Simple(SimpleAddr(Current, <<>>)), <<IfContains(RLit), Delete>>)
    /\ orig = <<"a", "b", "b">>
    /\ txt = orig
    /\ result.st = "ok"
    /\ EventsOf({"insert", "remove"}) = <<>>

\* an activation of apply_matches over the gaps that a y loop collected
AppliesGaps(f) ==
    /\ f.kind = "apply"
    /\ f.exprs[f.pc + 1].op = "LoopBetweenMatches"

\* C16: every synthetic match that y/re/ hands to its body is a gap of the
\* buffer that is not empty: from < to <= len_chars, and it covers only
\* characters that no match of re covers; so a text that ends with a match
\* of re has no gap after that match.
C16_GapsLieInTheBuffer ==
    \A i \in 1..Len(stack) :
        AppliesGaps(stack[i]) =>
            \A j \in 1..Len(stack[i].matches) :
                LET g == stack[i].matches[j] IN
                    /\ g.from < g.to
                    /\ g.to <= Len(stack[i].txt0)
                    /\ \A p \in g.from..g.to - 1 :
                          stack[i].txt0[p + 1] \notin MatchChars(stack[i].exprs[stack[i].pc + 1].re)

\* the characters of t that the Dot d, inclusive at both ends, selects
DotContent(d, t) == Between(t, d.from, d.to + 1)

\* the loop of a program `addr x/re/ p/tpl/` or `addr y/re/ p/tpl/` has run
\* its body on the last of its matches, which is not empty, and holds the
\* dot it will return
PrintLoopFinished ==
    /\ PrintLoopRuns
    /\ Len(stack) = 1
    /\ ret.st = "none"
    /\ stack[1].matches # <<>>
    /\ stack[1].k = Len(stack[1].matches)
    /\ stack[1].matches[stack[1].k].from < stack[1].matches[stack[1].k].to

\* the index of the last a of t
LastA(t) == CHOOSE p \in 0..Len(t) - 1 : t[p + 1] = "a" /\ \A q \in p + 1..Len(t) - 1 : t[q + 1] # "a"

\* C17: after `addr x/re/ p/tpl/` or `addr y/re/ p/tpl/` the returned Dot,
\* inclusive at both ends, selects exactly the characters of the last match
\* or gap the body ran on, wherever it lies in the text: the dot the loop
\* returns selects them, execute returns a dot that selects the same, and
\* after `, x/a/ p/tpl/` that is the one character of the last a.
C17_DotSelectsLastMatch ==
    /\ PrintLoopFinished =>
          DotContent(stack[1].dot, txt)
             = Between(txt, stack[1].matches[stack[1].k].from, stack[1].matches[stack[1].k].to)
    /\ \A tpl \in Templates :
          (/\ Done
           /\ result.st = "ok"
           /\ prog = Program(Full, <<LoopMatches(RLit), PrintE(tpl)>>)
           /\ \E p \in 1..Len(txt) : txt[p] = "a")
              => /\ result.dot.from = LastA(txt)
                 /\ result.dot.to = LastA(txt)

\* the number of newlines among the first i characters of t
NewlinesBefore(t, i) == Cardinality({q \in 1..i : t[q] = NL})

\* the indices of the characters of line n of t, its newline included
LineChars(t, n) == {p \in 0..Len(t) - 1 : NewlinesBefore(t, p) = n}

\* map_addr has returned the dot that selects the whole of line n
SelectsLine(n) ==
    /\ result.st = "ok"
    /\ result.dot.from..result.dot.to = LineChars(txt, n)

\* C18: for every line n of the text, Line(n), and RelativeLine when it
\* resolves to n, yield the dot that selects every character of line n, its
\* trailing newline included when it has one, also when n is the last line
\* of a text that does not end in a newline.
C18_LineSelectsWholeLine ==
    Done =>
        /\ \A n \in 0..MaxLen :
              (prog.initial_dot = Simple(SimpleAddr(Line(n), <<>>)) /\ LineChars(txt, n) # {})
                  => SelectsLine(n)
        /\ \A d \in {-1, 1} :
              (/\ prog.initial_dot = Simple(SimpleAddr(RelativeLine(d), <<>>))
               /\ ActiveCur(current_dot) < Len(txt)
               /\ LineChars(txt, NewlinesBefore(txt, ActiveCur(current_dot)) + d) # {})
                  => SelectsLine(NewlinesBefore(txt, ActiveCur(current_dot)) + d)

\* the calls of insert and remove that a step adds to the log
NewCalls == SubSeq(log', Len(log) + 1, Len(log'))

\* the call e of insert or remove is in the bounds of a buffer of n characters
CallInBounds(e, n) ==
    /\ e.ev = "insert" => e.a <= n
    /\ e.ev = "remove" => (e.a <= e.b /\ e.b <= n)

\* C20: every insert(idx, s) issued during execute has idx <= len_chars at
\* the time of the call and every remove(from, to) has
\* from <= to <= len_chars, whatever the program and the initial address,
\* the full address `,` included.
C20_EditCallsInBounds ==
    [][/\ Len(NewCalls) >= 1 => CallInBounds(NewCalls[1], Len(txt))
       /\ Len(NewCalls) = 2 =>
             CallInBounds(NewCalls[2], Len(txt) - (NewCalls[1].b - NewCalls[1].a))]_vars

\* an activation collects the gaps of a y loop
CollectsY == AtLoop("collect_y")

\* C21: the collection of the gaps of y/re/ terminates for every regex and
\* every text, also when re matches the empty string at the search start:
\* every iteration of the loop moves `from` strictly forward, so a
\* collection that has begun comes to its end.
C21_YCollectionTerminates ==
    /\ [][(CollectsY /\ CollectsY' /\ Len(stack') = Len(stack))
             => Top'.from > Top.from]_vars
    /\ CollectsY ~> ~CollectsY

\* C22: the list of matches that x/re/ collects holds no match twice: the
\* matches lie inside [m.from, m.to), do not overlap, and start at strictly
\* increasing positions, also when re matches the empty string at a
\* position after the search start.
C22_CollectedMatchesDistinct ==
    \A i \in 1..Len(stack) :
        CollectsX(stack[i]) =>
            LET f == stack[i] IN
                /\ \A j \in 1..Len(f.matches) :
                      /\ f.m.from <= f.matches[j].from
                      /\ f.matches[j].from <= f.matches[j].to
                      /\ f.matches[j].to <= f.m.to
                /\ \A j \in 1..Len(f.matches) - 1 :
                      /\ f.matches[j].from < f.matches[j + 1].from
                      /\ f.matches[j].to <= f.matches[j + 1].from

\* the operations of step that edit or print and return at once
EditOps == {"Insert", "Append", "Change", "Delete", "Sub", "Print"}

\* the innermost activation is a step on one of EditOps whose match lies inside the buffer
AtEditInside ==
    /\ \E op \in EditOps : AtStep(op)
    /\ Top.m.to <= LenChars(txt)

\* t and u agree before index from, and from index to of t on (shifted by the length change)
SameOutside(t, u, from, to) ==
    /\ Len(u) >= Len(t) - (to - from)
    /\ SubSeq(u, 1, from) = SubSeq(t, 1, from)
    /\ SubSeq(u, to + (Len(u) - Len(t)) + 1, Len(u)) = SubSeq(t, to + 1, Len(t))

\* C23: a step of Insert, Append, Change, Delete, Sub or Print on a match
\* [from, to) inside the buffer that returns Ok returns the dot [from, to + D),
\* D the change of the buffer length made by the step, and leaves the
\* characters outside [from, to) as they were.
C23_EditReturnsShiftedDot ==
    [][(AtEditInside /\ ret'.st = "ok") =>
          /\ ret'.dot = [from |-> Top.m.from,
                         to |-> Top.m.to + (LenChars(txt') - LenChars(txt)),
                         sa |-> FALSE]
          /\ SameOutside(txt, txt', Top.m.from, Top.m.to)]_vars

\* an edit of a loop body on a match inside the buffer has just returned a
\* dot and changed the length of the buffer
C23_Witness ==
    /\ AtLoop("apply")
    /\ ret.st = "ok"
    /\ Top.k > 0
    /\ Top.exprs[Top.pc + 2].op \in EditOps
    /\ ApplyOffset(Top.matches[Top.k], Top.offset).to <= Top.cur_len
    /\ LenChars(txt) # Top.cur_len
    /\ ret.dot.to = ApplyOffset(Top.matches[Top.k], Top.offset).to + LenChars(txt) - Top.cur_len

\* stack[i] is apply_matches of an outer loop whose current match is handed
\* to an inner x loop, the activation right above it
NestedLoop(i) ==
    /\ i < Len(stack)
    /\ stack[i].kind = "apply"
    /\ stack[i].k >= 1
    /\ stack[i + 1].kind \in {"collect_x", "apply"}
    /\ stack[i + 1].exprs = stack[i].exprs
    /\ stack[i + 1].pc = stack[i].pc + 1
    /\ stack[i].exprs[stack[i].pc + 2].op = "LoopMatches"

\* the inner loop works on the window of outer match k moved by the length
\* change of the text since the outer matches were collected
InnerWindowShifted(outer, inner) ==
    /\ outer.offset = outer.cur_len - Len(outer.txt0)
    /\ inner.m.from = outer.matches[outer.k].from + outer.offset
    /\ inner.m.to = outer.matches[outer.k].to + outer.offset
    /\ \A j \in 1..Len(inner.matches) :
          /\ inner.m.from <= inner.matches[j].from
          /\ inner.matches[j].to <= inner.m.to
    /\ inner.kind = "collect_x" => Len(txt) = outer.cur_len
    /\ inner.kind = "apply" => Len(inner.txt0) = outer.cur_len

\* apply_matches takes its next match only as the innermost activation,
\* when the step for the match before has returned
OuterWaitsForInner ==
    \A i \in 1..Len(stack) :
        (/\ stack[i].kind = "apply"
         /\ i <= Len(stack')
         /\ stack'[i].kind = "apply"
         /\ stack'[i].k # stack[i].k)
        => /\ i = Len(stack)
           /\ ret.st = "none"
           /\ stack'[i].k = stack[i].k + 1

\* C24: nested loops run depth-first: the inner loop for outer match i
\* collects inside the window of outer match i shifted by the total length
\* change of the edits made so far, on the text those edits left; the text
\* does not change while it collects; the outer loop goes to match i + 1
\* only when every activation for match i has returned.
C24_NestedLoopsDepthFirst ==
    /\ [](\A i \in 1..Len(stack) :
             NestedLoop(i) => InnerWindowShifted(stack[i], stack[i + 1]))
    /\ [][OuterWaitsForInner]_vars
    /\ [][AtLoop("collect_x") => txt' = txt]_vars

\* the inner loop runs its body on a match inside the second outer match,
\* which earlier inner edits have moved
C24_Witness ==
    \E i \in 1..Len(stack) :
        /\ NestedLoop(i)
        /\ stack[i].k >= 2
        /\ stack[i].offset # 0
        /\ stack[i + 1].kind = "apply"
        /\ stack[i + 1].k >= 1

\* C25: during execute of a Program that try_parse accepted, every
\* activation of step, the ones called from loops, guards and the branches
\* of a group included, has pc < the length of the list it indexes.
C25_PcInBounds ==
    \A i \in 1..Len(stack) : stack[i].pc < Len(stack[i].exprs)

\* step runs on the last expression of a list, called from apply_matches
C25_Witness ==
    /\ Len(stack) >= 2
    /\ Top.kind = "step"
    /\ Top.pc >= 1
    /\ Top.pc = Len(Top.exprs) - 1
    /\ stack[Len(stack) - 1].kind = "apply"

\* a + d as a signed integer, clamped into [0, len]
ClampedSum(a, d, len) == Max(0, Min(a + d, len))

\* C26: RelativeChar(d) against a dot whose active cursor is at a yields the
\* cursor at a + d, computed as a signed integer and clamped into
\* [0, len_chars]: the cursor at 0 when a + d < 0, the cursor at len_chars
\* when a + d > len_chars.
C26_RelativeCharClamped ==
    \A d \in {-2, 1} :
        (Done /\ prog.initial_dot = Simple(SimpleAddr(RelativeChar(d), <<>>)))
            => /\ result.st = "ok"
               /\ result.dot = CurDot(ClampedSum(ActiveCur(current_dot), d, LenChars(txt)))

\* the last call of handle_keys found the beginning of a binding
LastPartial ==
    \/ last.get.kind = "Partial"
    \/ last.get.kind = "Missing" /\ last.expired.kind = "Partial"

\* C27: when handle_keys has returned, the pending keys are non-empty only
\* if the lookup said Partial (the keymap, or the expired-pending handler
\* after the keymap said Missing); the keys are empty whenever Some(actions)
\* was returned; when keymap and handler both said Missing the keys are
\* cleared and None was returned, as in every call on an ephemeral mode.
C27_PendingKeysOnlyWhenPartial ==
    last.called =>
        /\ keys # <<>> => LastPartial
        /\ last.ret.some => keys = <<>>
        /\ (last.get.kind = "Missing" /\ last.expired.kind = "Missing")
               => (keys = <<>> /\ ~last.ret.some)
        /\ mode = EphemeralMode(mode.name) => (keys = <<>> /\ ~last.ret.some)

\* handle_keys has cleared pending keys that are no binding and begin none
C27_Witness ==
    /\ last.called
    /\ last.get.kind = "Missing"
    /\ last.expired.kind = "Missing"
    /\ keys = <<>>
    /\ mode.keymap = Keymap
    /\ mode.handle_expired_pending = "pair"

=============================================================================
